---- MODULE Spec2Model ----
(***************************************************************************)
(* State-machine model of the antigravity2api gateway: the TokenManager   *)
(* project pool (src/src/token_manager.py) and the proxied request paths  *)
(* with their one-shot auth retry (src/src/main.py,                       *)
(* src/src/gemini_converter.py).                                          *)
(*                                                                         *)
(* The gateway runs on one asyncio event loop: the code between two       *)
(* `await` suspension points runs atomically, so every action below is    *)
(* one such run-to-suspension segment of one request.                     *)
(***************************************************************************)
EXTENDS Integers, Sequences, FiniteSets, TLC

\* ------------------------------------------------------------------ bounds
MaxProjects == 2      \* longest project pool drawn by Init
MaxReqs     == 2      \* client requests in one behaviour
MaxRotation == 2      \* largest settings.token_rotation_count drawn by Init
MaxTicks    == 1      \* how many times an hour of wall-clock time may pass
MaxPicks    == 12     \* longest recorded run of get_next_project results
MaxSessions == 3      \* sessions whose answers are converted

\* ------------------------------------------------------- program constants
RefreshMargin    == 300     \* is_token_expired: refresh 5 minutes early
DefaultExpiresIn == 3599    \* token_data.get("expires_in", 3599)

Reqs == 1..MaxReqs

\* The endpoints that proxy a request upstream.  All six run the same steps
\* (get_next_project, get_access_token, POST, on 401/403 handle_auth_error
\* and one retry, on a second 401/403 disable_project); they differ in what
\* they hand to the client, which ClientResult gives per endpoint.
\*   chat          POST /v1/chat/completions, stream = false
\*   chat_stream   POST /v1/chat/completions, stream = true
\*   image_stream  POST /v1/chat/completions, stream = true, "-image" model
\*   models        GET  /v1/models
\*   gemini        POST /v1/models/{model}:generateContent
\*   gemini_stream POST /v1/models/{model}:streamGenerateContent
Kinds == {"chat", "chat_stream", "image_stream", "models", "gemini", "gemini_stream"}

\* Status codes the upstream (and the OAuth endpoint) may answer with.
UpstreamStatuses == {200, 401, 403, 503}
OAuthStatuses    == {200, 400}
\* expires_in values of an OAuth answer; 0 stands for an answer without the
\* field (the code then uses DefaultExpiresIn).
ExpiresInSet     == {0, 120}

VARIABLES
    projects,             \* TokenManager.projects: sequence of ProjectToken
    current_index,        \* TokenManager.current_index (0-based, as in the code)
    current_usage_count,  \* TokenManager.current_usage_count
    rotation_count,       \* TokenManager.rotation_count
    refresh_lock,         \* TokenManager.refresh_lock: 0 free, else the holder
    file,                 \* the "projects" list of data/tokens.json
    now,                  \* time.time(), in seconds
    req,                  \* per client request: its position and what it did
    picks,                \* history: projects returned by get_next_project
    last_pick,            \* history: the result of the last get_next_project
    stream,               \* one stream_google_to_openai generator
    image,                \* one stream_image_to_openai generator and its task
    cache,                \* one of the in-memory caches and its module's
                          \* _last_cleanup_ts
    conv,                 \* one chat request through the converters
    turn,                 \* the messages of one chat request and its answer
    auth,                 \* one API-key check
    dir                   \* the image directory and the last save into it

vars == <<projects, current_index, current_usage_count, rotation_count,
          refresh_lock, file, now, req, picks, last_pick, stream, image,
          cache, conv, turn, auth, dir>>

\* The token manager and the request records.
tokenVars == <<projects, current_index, current_usage_count, rotation_count,
               refresh_lock, file, now, req, picks, last_pick>>

\* The state outside the token manager and the request records.
sideVars == <<stream, image, cache, conv, turn, auth, dir>>

\* The state of the message conversion, the key check and the image store.
moreVars == <<turn, auth, dir>>

\* No streaming generator was made.
NoStream == [pc |-> "none", input |-> <<>>, pos |-> 0, attempt |-> 0,
             status |-> 0, disabled |-> FALSE, finish_reason |-> <<>>,
             usage_metadata |-> <<>>, out |-> <<>>]
\* No cache is looked at.
NoReturn == [op |-> "none", key |-> 0, hit |-> FALSE, value |-> <<>>, ts |-> 0,
             evicted |-> <<>>]
NoCache == [which |-> "none", entries |-> <<>>, last_cleanup |-> 0,
            ticks |-> 0, ret |-> NoReturn]
\* No request is being converted.
NoBody == [tools |-> <<>>, toolConfig |-> "", requestType |-> "",
           generationConfig |-> {}, systemInstruction |-> <<>>]
NoConv == [pc |-> "none", model |-> <<>>, session_id |-> 0, tools |-> <<>>,
           stream |-> FALSE, system |-> <<>>, options |-> {},
           body |-> NoBody, url_suffix |-> "", call |-> <<>>,
           reported |-> <<>>]
\* No chat request has its messages converted; the caches are empty.
NoCaches == [reasoning |-> [NoCache EXCEPT !.which = "reasoning"],
             tool      |-> [NoCache EXCEPT !.which = "tool"],
             names     |-> [NoCache EXCEPT !.which = "tool_name"]]
NoTurn == [pc |-> "none", model |-> <<>>, session_id |-> 0,
           messages |-> <<>>, caches |-> NoCaches, contents |-> <<>>,
           parts |-> <<>>, message |-> <<>>, message_caches |-> NoCaches,
           delta |-> <<>>, delta_caches |-> NoCaches, ticks |-> 0,
           answers |-> 0,
           captured |-> [reasoning |-> [s \in 1..MaxSessions |-> <<>>],
                         tool      |-> [s \in 1..MaxSessions |-> <<>>]]]

\* No client key has been checked: api_keys is settings.api_keys, the other
\* fields are the last checked request's endpoint, its three key locations
\* and the status the check gave (0: the handler goes on).
NoAuth == [pc |-> "none", api_keys |-> {}, endpoint |-> "",
           authorization |-> <<>>, x_goog_api_key |-> <<>>, key |-> <<>>,
           status |-> 0]
\* The image directory: its files (name and st_mtime each), the file name
\* the last save_base64_image returned (0: none, or it raised), what the
\* directory held when that call pruned, and the time file stamps are taken
\* from.
NoDir == [pc |-> "none", max_images |-> 0, files |-> {}, returned |-> 0,
          listed |-> {}, saves |-> 0, mtime |-> 0]
NoImage == [pc |-> "none", task |-> "none", usage |-> FALSE, beats |-> 0,
            joined |-> FALSE, raised |-> "", out |-> <<>>]

\* ------------------------------------------------------------ ProjectToken
\* access_token 0 models None/"" and expires_at 0 models None (both falsy).
\* A project is identified by its position in the pool.
NoReason == [text |-> "", status |-> 0]

ProjectToken(en, tok, exp, reason) ==
    [enabled |-> en, access_token |-> tok, expires_at |-> exp,
     disabled_reason |-> reason]

\* "Auth failed after token refresh: {status_code}"
AuthFailedReason(status) ==
    [text |-> "Auth failed after token refresh", status |-> status]

\* save_tokens leaving disabled_reason out of the written record.
save_tokens_without_reason(projs) ==
    [i \in 1..Len(projs) |->
        [access_token    |-> projs[i].access_token,
         expires_at      |-> projs[i].expires_at,
         enabled         |-> projs[i].enabled,
         disabled_reason |-> NoReason]]

\* save_tokens: the whole pool is written to the file, each project with the
\* fields the method lists.
save_tokens(projs) ==
    [i \in 1..Len(projs) |->
        [access_token    |-> projs[i].access_token,
         expires_at      |-> projs[i].expires_at,
         enabled         |-> projs[i].enabled,
         disabled_reason |-> projs[i].disabled_reason]]

\* getattr(project, "session_id", None), as the handlers read it; 0 models
\* None.  ProjectToken declares no such field and load_tokens sets none.
session_id(project) ==
    IF "session_id" \in DOMAIN project THEN project.session_id ELSE 0

\* ------------------------------------------------------ get_next_project
\* NeedsRotation with the comparison off by one.
NeedsRotationOffByOne(usage, rot) == usage > rot

\* The guard of the rotation block: the quota of the project under the cursor
\* is used up.
NeedsRotation(usage, rot) == usage >= rot

\* Selectable without the test.
SelectableAny(p) == TRUE

\* The `enabled` test of both cursor loops.

Selectable(p) == p.enabled

\* NoEnabled with the pre-check left out.
NoEnabledNever(projs) == FALSE

\* The pre-check: enabled_projects is empty.

NoEnabled(projs) == \A i \in 1..Len(projs) : ~projs[i].enabled

RECURSIVE AdvanceLoop(_, _, _)
\* "move to the next enabled project": the first while loop.
AdvanceLoop(projs, idx, attempts) ==
    IF attempts < Len(projs)
    THEN LET nxt == (idx + 1) % Len(projs)
         IN  IF Selectable(projs[nxt + 1])
             THEN nxt
             ELSE AdvanceLoop(projs, nxt, attempts + 1)
    ELSE idx

\* SelectLoop that moves the cursor on once the project is taken.
RECURSIVE SelectLoopPostIncrement(_, _, _, _)
SelectLoopPostIncrement(projs, idx, usage, attempts) ==
    IF attempts < Len(projs)
    THEN IF Selectable(projs[idx + 1])
         THEN [ok |-> TRUE, err |-> "", index |-> (idx + 1) % Len(projs),
               usage |-> usage + 1, project |-> idx + 1]
         ELSE SelectLoopPostIncrement(projs, (idx + 1) % Len(projs), usage,
                                      attempts + 1)
    ELSE [ok |-> FALSE, err |-> "All projects are disabled", index |-> idx,
          usage |-> usage, project |-> 0]

RECURSIVE SelectLoop(_, _, _, _)
\* "get the current project": the second while loop and the final raise.
SelectLoop(projs, idx, usage, attempts) ==
    IF attempts < Len(projs)
    THEN IF Selectable(projs[idx + 1])
         THEN [ok |-> TRUE, err |-> "", index |-> idx, usage |-> usage + 1,
               project |-> idx + 1]
         ELSE SelectLoop(projs, (idx + 1) % Len(projs), usage, attempts + 1)
    ELSE [ok |-> FALSE, err |-> "All projects are disabled", index |-> idx,
          usage |-> usage, project |-> 0]

\* get_next_project as a function of the pool state: the result (project is
\* the 1-based position of the returned project, 0 when it raised) and the
\* cursor and counter it leaves behind.
get_next_project(projs, idx, usage, rot) ==
    IF Len(projs) = 0
    THEN [ok |-> FALSE, err |-> "No projects configured", index |-> idx,
          usage |-> usage, project |-> 0]
    ELSE IF NoEnabled(projs)
    THEN [ok |-> FALSE, err |-> "All projects are disabled", index |-> idx,
          usage |-> usage, project |-> 0]
    ELSE LET rotate == NeedsRotation(usage, rot)
             u1 == IF rotate THEN 0 ELSE usage
             i1 == IF rotate THEN AdvanceLoop(projs, idx, 0) ELSE idx
         IN  SelectLoop(projs, i1, u1, 0)

\* disable_project: enabled = False, disabled_reason = reason (then saved).
disable_project(projs, p, reason) ==
    [projs EXCEPT ![p].enabled = FALSE, ![p].disabled_reason = reason]

\* ------------------------------------------------------------------- Init
\* A project as load_tokens may find it: enabled or disabled, with no token
\* yet or with a token that is valid for about an hour.
LoadedProjects(i) ==
    { ProjectToken(en, tok, IF tok = 0 THEN 0 ELSE 1000 + DefaultExpiresIn,
                   IF en THEN NoReason ELSE [text |-> "loaded", status |-> 0])
      : en \in BOOLEAN, tok \in {0, i} }

Pools ==
    UNION { { s \in [1..n -> UNION { LoadedProjects(i) : i \in 1..n }] :
                \A i \in 1..n : s[i] \in LoadedProjects(i) }
            : n \in 0..MaxProjects }

\* A client request before it arrives.  pc is its position (idle, wait_lock,
\* oauth, upstream, done), phase the caller of refresh_access_token it is in
\* ("get": get_access_token, "auth": handle_auth_error), project the project
\* get_next_project returned, hdr its Authorization header; `end` says how it
\* ended.  The other fields record what it did: the token of each upstream
\* POST (sent), the status of each answer (statuses), the tokens its two
\* refresh calls returned, its OAuth POSTs per phase, its calls of
\* handle_auth_error and disable_project, whether get_access_token found the
\* token expired and which requests were refreshing that project then, and
\* the expires_at its own get_access_token refresh stored.
IdleReq ==
    [pc |-> "idle", phase |-> "none", project |-> 0, hdr |-> 0,
     sent |-> <<>>, statuses |-> <<>>, getTok |-> 0, authCalls |-> 0,
     authTok |-> 0, getPosts |-> 0, authPosts |-> 0, disables |-> 0,
     sawExpired |-> FALSE, overlap |-> {}, getExpiry |-> 0, end |-> "none"]

NoPick == [ok |-> TRUE, err |-> "", index |-> 0, usage |-> 0, project |-> 0]

Init ==
    /\ projects \in Pools
    /\ current_index = 0
    /\ current_usage_count = 0
    /\ rotation_count \in 1..MaxRotation    \* settings.token_rotation_count
    /\ refresh_lock = 0
    /\ file = save_tokens(projects)
    /\ now = 1000
    /\ req = [r \in Reqs |-> IdleReq]
    /\ picks = <<>>
    /\ last_pick = NoPick
    /\ stream = NoStream
    /\ image = NoImage
    /\ cache = NoCache
    /\ conv = NoConv
    /\ turn = NoTurn
    /\ auth = NoAuth
    /\ dir = NoDir

\* ------------------------------------------------- the pool on its own
\* One synchronous get_next_project call (every handler starts with one).
PoolPick ==
    /\ Len(picks) < MaxPicks
    /\ LET g == get_next_project(projects, current_index, current_usage_count,
                                 rotation_count)
       IN  /\ current_index' = g.index
           /\ current_usage_count' = g.usage
           /\ last_pick' = g
           /\ picks' = IF g.ok THEN Append(picks, g.project) ELSE picks
    /\ UNCHANGED sideVars
    /\ UNCHANGED <<projects, rotation_count, refresh_lock, file, now, req>>

\* One disable_project call on any project of the pool; the recorded run of
\* picks starts again, since the set of enabled projects changed.
PoolDisable(p) ==
    /\ p \in 1..Len(projects)
    /\ projects' = disable_project(projects, p, AuthFailedReason(401))
    /\ file' = save_tokens(projects')
    /\ picks' = <<>>
    /\ UNCHANGED sideVars
    /\ UNCHANGED <<current_index, current_usage_count, rotation_count,
                   refresh_lock, now, req, last_pick>>

NextPool ==
    \/ PoolPick
    \/ \E p \in 1..MaxProjects : PoolDisable(p)

SpecPool == Init /\ [][NextPool]_vars

\* One disable_project call, the record of picks going on across it.
PoolDisableInRun(p) ==
    /\ p \in 1..Len(projects)
    /\ projects' = disable_project(projects, p, AuthFailedReason(401))
    /\ file' = save_tokens(projects')
    /\ UNCHANGED sideVars
    /\ UNCHANGED <<current_index, current_usage_count, rotation_count,
                   refresh_lock, now, req, picks, last_pick>>

NextQuota ==
    \/ PoolPick
    \/ \E p \in 1..MaxProjects : PoolDisableInRun(p)

SpecQuota == Init /\ [][NextQuota]_vars


\* ---------------------------------------------------------- token refresh
\* is_token_expired without the five minutes of margin.
is_token_expired_no_margin(p) ==
    \/ p.access_token = 0
    \/ p.expires_at = 0
    \/ p.expires_at < now

\* is_token_expired: no token, no expiry, or expiry within the margin.
is_token_expired(p) ==
    \/ p.access_token = 0
    \/ p.expires_at = 0
    \/ p.expires_at < now + RefreshMargin

\* DoubleCheckHit with the double check left out.
DoubleCheckNever(p) == FALSE

\* The double check of refresh_access_token, made with the lock held: the
\* stored token is returned when it is not expired.
DoubleCheckHit(p) == ~is_token_expired(p)

\* The access token an OAuth answer carries: one never seen before.  A
\* request posts at most once per phase, so (request, phase) names it.
MintedToken(r, phase) ==
    MaxProjects + 2 * (r - 1) + (IF phase = "auth" THEN 2 ELSE 1)

\* Refreshed, also switching the project back on.
RefreshedReenables(p, tok, expires_in) ==
    [p EXCEPT !.access_token = tok, !.enabled = TRUE,
              !.expires_at = now + (IF expires_in = 0 THEN DefaultExpiresIn
                                    ELSE expires_in)]

\* "update token": access_token and expires_at of the refreshed project.
Refreshed(p, tok, expires_in) ==
    [p EXCEPT !.access_token = tok,
              !.expires_at = now + (IF expires_in = 0 THEN DefaultExpiresIn
                                    ELSE expires_in)]

\* ------------------------------------------------------ the request paths
\* IsAuthError without 403.
IsAuthErrorOnly401(status) == status = 401

\* `status_code in (401, 403)`
IsAuthError(status) == status \in {401, 403}

\* MayRetry with the retry's answer handled like the first.
MayRetryAlways(attempt) == TRUE

\* The refresh-and-retry block handles the first response only: the retry's
\* response is not passed through it again.
MayRetry(attempt) == attempt = 1

\* RetryHeader with the header left as it was.
RetryHeaderStale(old, new) == old

\* headers["Authorization"] = f"Bearer {new_token}"
RetryHeader(old, new) == new

Result(kind, status, src, detail) ==
    [kind |-> kind, status |-> status, src |-> src, detail |-> detail]

\* What the client gets when an exception leaves the handler of `kind`
\* outside any try block: FastAPI answers 500; a streaming body that raises
\* is cut off after its 200 header.
Unhandled(kind) ==
    IF kind = "gemini_stream"
    THEN Result("aborted", 200, 0, "")
    ELSE Result("http_error", 500, 0, "Internal Server Error")

\* get_access_token raised (the refresh failed) before the first attempt.
GetTokenFailed(kind) ==
    IF kind \in {"chat", "chat_stream", "image_stream", "models"}
    THEN Result("http_error", 500, 0, "Failed to get access token")
    ELSE Unhandled(kind)

\* handle_auth_error raised (the refresh failed) after a 401/403.
AuthRefreshFailed(kind) ==
    CASE kind \in {"chat", "models"} ->
             Result("http_error", 500, 0, "Error: refresh failed")
      [] kind = "image_stream" ->
             Result("sse_error", 200, 0, "Error: refresh failed")
      [] kind = "chat_stream" ->
             Result("sse_error", 200, 0, "Stream error: refresh failed")
      [] OTHER -> Unhandled(kind)

\* httpx.TimeoutException on an upstream attempt.
TimedOut(kind) ==
    CASE kind \in {"chat", "models"} ->
             Result("http_error", 504, 0, "Request timeout")
      [] kind = "image_stream" ->
             Result("sse_error", 200, 0, "Request timeout")
      [] kind = "chat_stream" ->
             Result("sse_error", 200, 0, "Request timeout")
      [] OTHER -> Unhandled(kind)

\* handle_non_stream_request and list_models raise
\* HTTPException(status_code=response.status_code) inside their try block,
\* whose `except Exception` turns it into HTTPException(500, "Error: ...").
NonStreamError(status) ==
    Result("http_error", 500, status, "Error: Google API error: body")

\* The client's outcome once the last upstream response (attempt 1 or 2) with
\* `status` is in.  src is the status of the upstream response the outcome
\* was made from.
FinalResult(kind, attempt, status) ==
    CASE kind \in {"chat", "models"} ->
             IF status = 200 THEN Result("ok", 200, 200, "")
             ELSE NonStreamError(status)
      [] kind = "image_stream" ->
             IF status = 200 THEN Result("ok", 200, 200, "")
             ELSE Result("sse_error", 200, status, NonStreamError(status).detail)
      [] kind = "gemini" ->
             IF status = 200 THEN Result("ok", 200, 200, "")
             ELSE Result("http_error", status, status, "Google API error: body")
      [] kind = "chat_stream" ->
             IF attempt = 2 /\ IsAuthError(status)
             THEN Result("sse_error", 200, status, "Auth failed, project disabled")
             ELSE IF status # 200
             THEN Result("sse_error", 200, status, "Google API error: status")
             ELSE Result("ok", 200, 200, "")
      [] kind = "gemini_stream" ->
             IF attempt = 2 /\ IsAuthError(status)
             THEN Result("sse_error", 200, status, "Auth failed, project disabled")
             ELSE IF attempt = 1 /\ status # 200
             THEN Result("sse_error", 200, status, "Google API error: status")
             \* the retry's `status != 200` test sits after a return: the
             \* lines of the retry response are pumped whatever its status
             ELSE Result("ok", 200, status, "")

\* What the client of a request to the endpoint `kind` gets, the request
\* having run as `rec` records.
ClientResult(kind, rec) ==
    CASE rec.end = "pick_failed" ->
             \* get_next_project's ValueError leaves the handler
             Result("http_error", 500, 0, "Internal Server Error")
      [] rec.end = "get_failed"  -> GetTokenFailed(kind)
      [] rec.end = "auth_failed" -> AuthRefreshFailed(kind)
      [] rec.end = "timeout"     -> TimedOut(kind)
      [] rec.end = "answered"    ->
             FinalResult(kind, Len(rec.sent), rec.statuses[Len(rec.statuses)])
      [] rec.end = "unauthorized" ->
             Result("http_error", 401, 0, "Invalid API key")
      [] rec.end = "bad_json" ->
             Result("http_error", 400, 0, "Invalid JSON")
      [] OTHER -> Result("none", 0, 0, "")

\* The request goes on with the token its refresh call returned: the first
\* attempt is sent (get_access_token), or the header is rewritten and the
\* retry is sent (handle_auth_error).
AfterToken(rec, phase, tok) ==
    IF phase = "get"
    THEN [rec EXCEPT !.pc = "upstream", !.phase = "none", !.getTok = tok,
                     !.hdr = tok, !.sent = <<tok>>]
    ELSE LET h == RetryHeader(rec.hdr, tok)
         IN  [rec EXCEPT !.pc = "upstream", !.phase = "none", !.authTok = tok,
                         !.hdr = h, !.sent = Append(rec.sent, h)]

\* AfterRefreshFailed that swallows the error: the caller goes on with the
\* token the project holds.
AfterRefreshFailedSilently(rec, phase) ==
    [rec EXCEPT !.pc = "upstream", !.phase = "none",
                !.sent = Append(rec.sent, rec.hdr)]

\* The refresh call raised: the request ends.
AfterRefreshFailed(rec, phase) ==
    [rec EXCEPT !.pc = "done", !.phase = "none",
                !.end = IF phase = "get" THEN "get_failed" ELSE "auth_failed"]

\* refresh_access_token up to its first suspension: wait for the lock, or
\* take it and either return the stored token (double check) or post to the
\* OAuth endpoint.  Gives the request's next record and the lock's holder.
\* Which of several waiting requests gets a freed lock is left open.
EnterRefresh(r, rec, phase) ==
    IF refresh_lock # 0
    THEN [rec |-> [rec EXCEPT !.pc = "wait_lock", !.phase = phase],
          lock |-> refresh_lock]
    ELSE IF DoubleCheckHit(projects[rec.project])
    THEN [rec |-> AfterToken(rec, phase, projects[rec.project].access_token),
          lock |-> 0]
    ELSE [rec |-> [rec EXCEPT !.pc = "oauth", !.phase = phase,
                     !.getPosts = @ + (IF phase = "get" THEN 1 ELSE 0),
                     !.authPosts = @ + (IF phase = "auth" THEN 1 ELSE 0)],
          lock |-> r]

\* The requests inside get_access_token's refresh of project p right now.
Refreshing(p) ==
    { q \in Reqs : /\ req[q].project = p
                   /\ req[q].phase = "get"
                   /\ req[q].pc \in {"wait_lock", "oauth"} }

\* A client request arrives: get_next_project, then get_access_token, then
\* (with a token at hand) the first upstream attempt.
Start(r) ==
    /\ req[r].pc = "idle"
    /\ LET g == get_next_project(projects, current_index, current_usage_count,
                                 rotation_count)
       IN  /\ current_index' = g.index
           /\ current_usage_count' = g.usage
           /\ IF ~g.ok
              THEN /\ req' = [req EXCEPT ![r] =
                         [IdleReq EXCEPT !.pc = "done", !.end = "pick_failed"]]
                   /\ UNCHANGED refresh_lock
              ELSE LET rec == [IdleReq EXCEPT !.project = g.project]
                       p == projects[g.project]
                   IN  IF is_token_expired(p)
                       THEN LET e == EnterRefresh(r,
                                       [rec EXCEPT !.sawExpired = TRUE,
                                           !.overlap = Refreshing(g.project)],
                                       "get")
                            IN  /\ req' = [req EXCEPT ![r] = e.rec]
                                /\ refresh_lock' = e.lock
                       ELSE /\ req' = [req EXCEPT ![r] =
                                          AfterToken(rec, "get", p.access_token)]
                            /\ UNCHANGED refresh_lock
    /\ UNCHANGED sideVars
    /\ UNCHANGED <<projects, rotation_count, file, now, picks, last_pick>>

\* A request waiting for the refresh lock gets it.
AcquireLock(r) ==
    /\ req[r].pc = "wait_lock"
    /\ refresh_lock = 0
    /\ LET e == EnterRefresh(r, req[r], req[r].phase)
       IN  /\ req' = [req EXCEPT ![r] = e.rec]
           /\ refresh_lock' = e.lock
    /\ UNCHANGED sideVars
    /\ UNCHANGED <<projects, current_index, current_usage_count,
                   rotation_count, file, now, picks, last_pick>>

\* The OAuth endpoint answers the refresh POST of request r.
OAuthResponse(r, status, expires_in) ==
    /\ req[r].pc = "oauth"
    /\ refresh_lock' = 0
    /\ IF status = 200
       THEN LET tok == MintedToken(r, req[r].phase)
            IN  /\ projects' = [projects EXCEPT ![req[r].project] =
                                   Refreshed(@, tok, expires_in)]
                /\ file' = save_tokens(projects')
                /\ req' = [req EXCEPT ![r] =
                      AfterToken([@ EXCEPT !.getExpiry =
                                      IF req[r].phase = "get"
                                      THEN projects'[req[r].project].expires_at
                                      ELSE @],
                                 req[r].phase, tok)]
       ELSE /\ req' = [req EXCEPT ![r] = AfterRefreshFailed(@, req[r].phase)]
            /\ UNCHANGED <<projects, file>>
    /\ UNCHANGED sideVars
    /\ UNCHANGED <<current_index, current_usage_count, rotation_count, now,
                   picks, last_pick>>

\* The refresh POST raises (timeout, connection error): logged and re-raised.
OAuthRaises(r) ==
    /\ req[r].pc = "oauth"
    /\ refresh_lock' = 0
    /\ req' = [req EXCEPT ![r] = AfterRefreshFailed(@, req[r].phase)]
    /\ UNCHANGED sideVars
    /\ UNCHANGED <<projects, current_index, current_usage_count,
                   rotation_count, file, now, picks, last_pick>>

\* The upstream answers the attempt in flight with `status`.
UpstreamResponse(r, status) ==
    /\ req[r].pc = "upstream"
    /\ LET attempt == Len(req[r].sent)
           rec == [req[r] EXCEPT !.statuses = Append(@, status)]
       IN  IF IsAuthError(status) /\ MayRetry(attempt)
           THEN LET e == EnterRefresh(r, [rec EXCEPT !.authCalls = @ + 1], "auth")
                IN  /\ req' = [req EXCEPT ![r] = e.rec]
                    /\ refresh_lock' = e.lock
                    /\ UNCHANGED <<projects, file>>
           ELSE /\ req' = [req EXCEPT ![r] =
                      [rec EXCEPT !.pc = "done", !.end = "answered",
                          !.disables = @ + (IF IsAuthError(status) THEN 1 ELSE 0)]]
                /\ projects' = IF IsAuthError(status)
                               THEN disable_project(projects, rec.project,
                                                    AuthFailedReason(status))
                               ELSE projects
                /\ file' = save_tokens(projects')
                /\ UNCHANGED refresh_lock
    /\ UNCHANGED sideVars
    /\ UNCHANGED <<current_index, current_usage_count, rotation_count, now,
                   picks, last_pick>>

\* The attempt in flight times out (httpx.TimeoutException).
UpstreamTimeout(r) ==
    /\ req[r].pc = "upstream"
    /\ req' = [req EXCEPT ![r].pc = "done", ![r].end = "timeout"]
    /\ UNCHANGED sideVars
    /\ UNCHANGED <<projects, current_index, current_usage_count, rotation_count,
                   refresh_lock, file, now, picks, last_pick>>

\* An hour passes.
Tick ==
    /\ now < 1000 + MaxTicks * 3600
    /\ now' = now + 3600
    /\ UNCHANGED sideVars
    /\ UNCHANGED <<projects, current_index, current_usage_count, rotation_count,
                   refresh_lock, file, req, picks, last_pick>>

RequestStep ==
    \E r \in Reqs :
        \/ Start(r)
        \/ AcquireLock(r)
        \/ \E status \in OAuthStatuses, e \in ExpiresInSet :
               OAuthResponse(r, status, e)
        \/ OAuthRaises(r)
        \/ \E status \in UpstreamStatuses : UpstreamResponse(r, status)
        \/ UpstreamTimeout(r)

Next ==
    \/ RequestStep
    \/ Tick

Spec == Init /\ [][Next]_vars

\* A burst of arrivals: requests come in and go through get_access_token
\* while the upstream has not answered any of them yet and the clock has not
\* moved (a refresh POST takes at most its 30 s timeout).
NextBurst ==
    \E r \in Reqs :
        \/ Start(r)
        \/ AcquireLock(r)
        \/ \E status \in OAuthStatuses, e \in ExpiresInSet :
               OAuthResponse(r, status, e)
        \/ OAuthRaises(r)

SpecBurst == Init /\ [][NextBurst]_vars


\* ------------------------------------------------ streaming chat completion
MaxLines == 3      \* longest upstream SSE body drawn by InitStream

\* The lines of an upstream SSE body, as far as google_sse_to_openai tells
\* them apart.  prefix is what the stripped line starts with, payload what
\* follows it:
\*   blank         nothing is left after strip()
\*   text          anything that does not start with "data:"
\*   [DONE]        the upstream terminator
\*   badjson       json.loads raises JSONDecodeError
\*   notobject     JSON that is no object (google_data.get raises)
\*   nocandidates  an object whose response.candidates is missing or empty
\*   candidates    response.candidates is a non-empty list of candidate
\*                 objects
\*   badcandidate  response.candidates is a non-empty list whose first
\*                 element is no well-formed candidate (a string, or an
\*                 object with "content": null): candidate.get raises
UpstreamLines ==
    { [prefix |-> "", payload |-> "blank"],
      [prefix |-> "event:", payload |-> "text"] }
    \cup { [prefix |-> "data: ", payload |-> b] :
             b \in {"[DONE]", "badjson", "notobject", "nocandidates",
                    "candidates", "badcandidate"} }
    \cup { [prefix |-> "data:", payload |-> b] : b \in {"[DONE]", "candidates"} }

\* Candidate lines that say more: "finish" has a finishReason in its first
\* candidate, "usage" a non-empty usageMetadata in its response, "emptyusage"
\* an empty one, "finish_usage" a finishReason and a non-empty usageMetadata.
UsageLines ==
    { [prefix |-> "data: ", payload |-> b] :
        b \in {"candidates", "finish", "usage", "emptyusage", "finish_usage",
               "nocandidates"} }

\* "finishReason" in candidate; every reason maps to a non-empty string.
HasFinishReason(line) == line.payload \in {"finish", "finish_usage"}
\* "usageMetadata" in response, and the object it gives (<<>> is the empty
\* object).
HasUsageMetadata(line) ==
    line.payload \in {"usage", "emptyusage", "finish_usage"}
UsageMetadataOf(line) ==
    IF line.payload = "emptyusage" THEN <<>> ELSE <<"tokens">>

\* Outbound SSE events: a chunk made from the upstream line at position
\* `line` (detail says whether it carries "usage"), an error event, the
\* terminator.
ChunkEvent(i) == [type |-> "chunk", line |-> i, detail |-> ""]
UsageChunkEvent(i) == [type |-> "chunk", line |-> i, detail |-> "usage"]
ErrorEvent(d) == [type |-> "error", line |-> 0, detail |-> d]
DoneEvent     == [type |-> "done",  line |-> 0, detail |-> ""]

\* google_sse_to_openai, one line: the line is dropped by one of the
\* `continue` statements or by one of the two except clauses of the loop
\* body.
SkipsNothing(line) == FALSE

SkipsLine(line) ==
    \/ line.payload = "blank"                      \* if not line
    \/ line.prefix \notin {"data: ", "data:"}      \* not an SSE data line
    \/ line.payload = "[DONE]"
    \/ line.payload = "badjson"                    \* except JSONDecodeError
    \/ line.payload \in {"notobject", "badcandidate"}   \* except Exception
    \/ line.payload = "nocandidates"               \* if not candidates

\* A stream_google_to_openai generator whose first POST is under way.
NewStream(lines) ==
    [pc |-> "post", input |-> lines, pos |-> 1, attempt |-> 1, status |-> 0,
     disabled |-> FALSE, finish_reason |-> <<>>, usage_metadata |-> <<>>,
     out |-> <<>>]

\* The generator yields the event and returns.
StreamClosed(st, ev) == [st EXCEPT !.pc = "closed", !.out = Append(@, ev)]

\* The answer to client.stream("POST", ...) comes in with `status`: the
\* first answer, or the retry's.
StreamResponse(status) ==
    /\ stream.pc = "post"
    /\ LET st == [stream EXCEPT !.status = status]
       IN  stream' =
             IF st.attempt = 1 /\ IsAuthError(status)
             THEN [st EXCEPT !.pc = "auth"]
             ELSE IF IsAuthError(status)
             THEN StreamClosed([st EXCEPT !.disabled = TRUE],
                               ErrorEvent("Auth failed, project disabled"))
             ELSE IF status # 200
             THEN StreamClosed(st, ErrorEvent("Google API error: status"))
             ELSE [st EXCEPT !.pc = "pump"]
    /\ UNCHANGED <<tokenVars, image, cache, conv, moreVars>>

\* handle_auth_error returns a token: the retry is sent.
StreamAuthReturns ==
    /\ stream.pc = "auth"
    /\ stream' = [stream EXCEPT !.pc = "post", !.attempt = 2]
    /\ UNCHANGED <<tokenVars, image, cache, conv, moreVars>>

\* httpx.TimeoutException: on either POST, or from aiter_lines() while the
\* body is pumped.
StreamTimeout ==
    /\ stream.pc \in {"post", "pump"}
    /\ stream' = StreamClosed(stream, ErrorEvent("Request timeout"))
    /\ UNCHANGED <<tokenVars, image, cache, conv, moreVars>>

\* Any other exception: handle_auth_error raises (the refresh failed), the
\* connection breaks on a POST or while the body is pumped.
StreamException ==
    /\ stream.pc \in {"post", "auth", "pump"}
    /\ stream' = StreamClosed(stream, ErrorEvent("Stream error"))
    /\ UNCHANGED <<tokenVars, image, cache, conv, moreVars>>

\* google_sse_to_openai takes the next upstream line.
PumpLine ==
    /\ stream.pc = "pump"
    /\ stream.pos <= Len(stream.input)
    /\ LET line == stream.input[stream.pos]
           finish_reason == IF HasFinishReason(line) THEN <<"stop">>
                            ELSE stream.finish_reason
           usage_metadata == IF HasUsageMetadata(line)
                             THEN UsageMetadataOf(line)
                             ELSE stream.usage_metadata
       IN  stream' =
             IF SkipsLine(line) THEN [stream EXCEPT !.pos = @ + 1]
             ELSE [stream EXCEPT
                     !.pos = @ + 1,
                     !.finish_reason = finish_reason,
                     !.usage_metadata = usage_metadata,
                     !.out = Append(@,
                               IF usage_metadata # <<>> /\ finish_reason # <<>>
                               THEN UsageChunkEvent(stream.pos)
                               ELSE ChunkEvent(stream.pos))]
    /\ UNCHANGED <<tokenVars, image, cache, conv, moreVars>>

\* The upstream body is exhausted: google_sse_to_openai yields the
\* terminator and both generators return.
PumpEnd ==
    /\ stream.pc = "pump"
    /\ stream.pos > Len(stream.input)
    /\ stream' = StreamClosed(stream, DoneEvent)
    /\ UNCHANGED <<tokenVars, image, cache, conv, moreVars>>


\* Converted streams whose upstream answered 200, over the lines that carry
\* finish reasons and usage.
InitUsage ==
    /\ projects = <<>>
    /\ current_index = 0
    /\ current_usage_count = 0
    /\ rotation_count = 1
    /\ refresh_lock = 0
    /\ file = <<>>
    /\ now = 1000
    /\ req = [r \in Reqs |-> IdleReq]
    /\ picks = <<>>
    /\ last_pick = NoPick
    /\ image = NoImage
    /\ cache = NoCache
    /\ conv = NoConv
    /\ turn = NoTurn
    /\ auth = NoAuth
    /\ dir = NoDir
    /\ \E n \in 0..MaxLines :
          \E lines \in [1..n -> UsageLines] : stream = NewStream(lines)

NextUsage ==
    \/ StreamResponse(200)
    \/ PumpLine
    \/ PumpEnd

SpecUsage == InitUsage /\ [][NextUsage]_vars


\* ------------------------------------------------- image streaming wrapper
MaxBeats == 2      \* heartbeat intervals that may elapse on one image job

HeartbeatEvent   == [type |-> "heartbeat", line |-> 0, detail |-> ""]
ContentEvent     == [type |-> "content",   line |-> 0, detail |-> ""]
\* FinishEvent that forgets the usage.
FinishEventNoUsage(u) == [type |-> "finish", line |-> 0, detail |-> ""]

\* The finish chunk; detail says whether it carries "usage".
FinishEvent(u)   == [type |-> "finish", line |-> 0,
                     detail |-> IF u THEN "usage" ELSE ""]

\* A stream_image_to_openai generator right after asyncio.create_task: it is
\* at `await asyncio.wait({task}, timeout=heartbeat)` and the task, the
\* upstream call of handle_non_stream_request, is pending.  pc is the place
\* the generator is suspended at: "wait", or the yield it last made
\* ("heartbeat", "content", "finish", "error", "done"); "closed" once it has
\* finished.  joined: the wrapper awaited its task to the end.
NewImage ==
    [pc |-> "wait", task |-> "pending", usage |-> FALSE, beats |-> 0,
     joined |-> FALSE, raised |-> "", out |-> <<>>]

\* The background task ends: handle_non_stream_request returns the OpenAI
\* response (with or without "usage") or raises.
ImageTaskEnds(ok, usage) ==
    /\ image.task = "pending"
    /\ image.pc # "none"
    /\ ok \/ ~usage
    /\ image' = [image EXCEPT !.task = IF ok THEN "ok" ELSE "raised",
                              !.usage = usage]
    /\ UNCHANGED <<tokenVars, stream, cache, conv, moreVars>>

\* asyncio.wait times out with the task still pending: one heartbeat.
ImageWaitTimeout ==
    /\ image.pc = "wait"
    /\ image.task = "pending"
    /\ image.beats < MaxBeats
    /\ image' = [image EXCEPT !.pc = "heartbeat", !.beats = @ + 1,
                              !.out = Append(@, HeartbeatEvent)]
    /\ UNCHANGED <<tokenVars, stream, cache, conv, moreVars>>

\* asyncio.wait returns the finished task.  task.result() gives the response
\* and the content chunk is yielded, or it raises: `except Exception` cancels
\* and awaits the (finished) task and yields the error event.
ImageWaitDone ==
    /\ image.pc = "wait"
    /\ image.task \in {"ok", "raised"}
    /\ image' = IF image.task = "ok"
                THEN [image EXCEPT !.pc = "content",
                                   !.out = Append(@, ContentEvent)]
                ELSE [image EXCEPT !.pc = "error", !.joined = TRUE,
                                   !.out = Append(@, ErrorEvent("detail"))]
    /\ UNCHANGED <<tokenVars, stream, cache, conv, moreVars>>

\* The consumer asks for the next event while the generator is suspended at
\* a yield: it runs to its next suspension point or to its return.
ImageNext ==
    /\ image.pc \in {"heartbeat", "content", "finish", "error", "done"}
    /\ image' =
         CASE image.pc = "heartbeat" -> [image EXCEPT !.pc = "wait"]
           [] image.pc = "content" ->
                  [image EXCEPT !.pc = "finish",
                                !.out = Append(@, FinishEvent(image.usage))]
           [] image.pc \in {"finish", "error"} ->
                  [image EXCEPT !.pc = "done", !.out = Append(@, DoneEvent)]
           [] image.pc = "done" -> [image EXCEPT !.pc = "closed"]
    /\ UNCHANGED <<tokenVars, stream, cache, conv, moreVars>>

\* The client is gone while the generator is inside asyncio.wait: the
\* CancelledError is raised there, `except asyncio.CancelledError` cancels
\* the task, awaits it and re-raises.
ImageCancelled ==
    /\ image.pc = "wait"
    /\ image' = [image EXCEPT
                   !.pc = "closed", !.raised = "CancelledError",
                   !.joined = TRUE,
                   !.task = IF @ = "pending" THEN "cancelled" ELSE @]
    /\ UNCHANGED <<tokenVars, stream, cache, conv, moreVars>>

\* The client is gone while the generator is suspended at a yield (the
\* consumer was writing the event to a slow socket): the consumer is
\* cancelled, not the generator, which is closed by aclose().  GeneratorExit
\* is raised at the yield; it is neither a CancelledError nor an Exception,
\* so no except clause runs and the task is left as it is.
ImageAclose ==
    /\ image.pc \in {"heartbeat", "content", "finish", "error", "done"}
    /\ image' = [image EXCEPT !.pc = "closed", !.raised = "GeneratorExit"]
    /\ UNCHANGED <<tokenVars, stream, cache, conv, moreVars>>

\* ------------------------------------------- the two streaming generators
\* One streaming chat completion: a text model (stream_google_to_openai over
\* some upstream body) or an image model (stream_image_to_openai).  The
\* token manager is left out: what handle_auth_error does shows here only as
\* its returning or raising.
InitStream ==
    /\ projects = <<>>
    /\ current_index = 0
    /\ current_usage_count = 0
    /\ rotation_count = 1
    /\ refresh_lock = 0
    /\ file = <<>>
    /\ now = 1000
    /\ req = [r \in Reqs |-> IdleReq]
    /\ picks = <<>>
    /\ last_pick = NoPick
    /\ cache = NoCache
    /\ conv = NoConv
    /\ turn = NoTurn
    /\ auth = NoAuth
    /\ dir = NoDir
    /\ \/ /\ image = NoImage
          /\ \E n \in 0..MaxLines :
                \E lines \in [1..n -> UpstreamLines] : stream = NewStream(lines)
       \/ /\ stream = NoStream
          /\ image = NewImage

NextStream ==
    \/ \E status \in UpstreamStatuses : StreamResponse(status)
    \/ StreamAuthReturns
    \/ StreamTimeout
    \/ StreamException
    \/ PumpLine
    \/ PumpEnd
    \/ \E ok \in BOOLEAN, usage \in BOOLEAN : ImageTaskEnds(ok, usage)
    \/ ImageWaitTimeout
    \/ ImageWaitDone
    \/ ImageNext
    \/ ImageCancelled
    \/ ImageAclose

SpecStream == InitStream /\ [][NextStream]_vars


\* ------------------------------------------------------ in-memory caches
\* signature_cache.py holds the reasoning and the tool signature cache, which
\* share one _last_cleanup_ts; tool_name_cache.py holds the tool-name cache.
\* The three run the same code.  A behaviour follows one of them; what an
\* operation on its sibling does to it is CacheSweep.
ENTRY_TTL_SECONDS      == 1800
CLEAN_INTERVAL_SECONDS == 600
MAX_REASONING_ENTRIES  == 2     \* 256 in the code, scaled down
MAX_TOOL_ENTRIES       == 2     \* 256 in the code, scaled down
MAX_ENTRIES            == 3     \* 512 in the code, scaled down
MaxKeys       == 4              \* distinct cache keys in one behaviour
MaxCacheTicks == 2              \* how many times the clock moves

CacheNames == {"reasoning", "tool", "tool_name"}
CacheKeys  == 1..MaxKeys
\* Values to store, strings as sequences of characters: <<>> models None or
\* "" (falsy), which is not stored.
CacheValues == {<<>>, <<"s">>}
\* Seconds by which the clock moves between two cache operations.
CacheSteps == {500, 1300, 1301}

max_entries(which) ==
    CASE which = "reasoning" -> MAX_REASONING_ENTRIES
      [] which = "tool"      -> MAX_TOOL_ENTRIES
      [] OTHER               -> MAX_ENTRIES

_Entry(key, value, ts) == [key |-> key, value |-> value, ts |-> ts]

\* The cache is an OrderedDict: its entries in insertion order.
HasKey(entries, key) == \E i \in 1..Len(entries) : entries[i].key = key

\* cache.get(key): <<>> models None.
Lookup(entries, key) == SelectSeq(entries, LAMBDA e : e.key = key)

\* cache.pop(key, None)
Pop(entries, key) == SelectSeq(entries, LAMBDA e : e.key # key)

\* cache[key] = entry: a new key goes to the end; an existing key keeps its
\* place in the order and gets the new entry.
Assign(entries, e) ==
    IF HasKey(entries, e.key)
    THEN [i \in 1..Len(entries) |->
             IF entries[i].key = e.key THEN e ELSE entries[i]]
    ELSE Append(entries, e)

\* The entries _prune_size pops: popitem(last=False) while over the cap.
Popped(entries, max) ==
    IF Len(entries) > max THEN SubSeq(entries, 1, Len(entries) - max) ELSE <<>>

\* _prune_size that never pops.
_prune_size_off(entries, max) == entries

_prune_size(entries, max) ==
    IF Len(entries) > max
    THEN SubSeq(entries, Len(entries) - max + 1, Len(entries))
    ELSE entries

\* The entry's TTL test without the expiry.
IsExpiredNever(e, t) == FALSE

\* now - entry.ts > ENTRY_TTL_SECONDS
IsExpired(e, t) == t - e.ts > ENTRY_TTL_SECONDS

_prune_expired(entries, t) == SelectSeq(entries, LAMBDA e : ~IsExpired(e, t))

_maybe_cleanup(c, t) ==
    IF t - c.last_cleanup < CLEAN_INTERVAL_SECONDS THEN c
    ELSE [c EXCEPT !.entries = _prune_expired(@, t), !.last_cleanup = t]

\* set_reasoning_signature, set_tool_signature, set_tool_name_mapping (whose
\* other early return, safe_name == original_name, is the converter's
\* business) at time t: the cache afterwards.
cache_set(c, key, value, t) ==
    IF value = <<>>
    THEN [c EXCEPT !.ret = [NoReturn EXCEPT !.op = "set", !.key = key]]
    ELSE LET c1 == _maybe_cleanup(c, t)
             es == Assign(c1.entries, _Entry(key, value, t))
             m  == max_entries(c.which)
         IN  [c1 EXCEPT
                !.entries = _prune_size(es, m),
                !.ret = [NoReturn EXCEPT
                           !.op = "set", !.key = key, !.hit = TRUE,
                           !.value = value, !.ts = t,
                           !.evicted = Popped(es, m)]]

\* get_reasoning_signature, get_tool_signature, get_original_tool_name at
\* time t: the cache afterwards, ret holding what the call returns.
cache_get(c, key, t) ==
    LET c1    == _maybe_cleanup(c, t)
        found == Lookup(c1.entries, key)
    IN  IF found = <<>>
        THEN [c1 EXCEPT !.ret = [NoReturn EXCEPT !.op = "get", !.key = key]]
        ELSE IF IsExpired(found[1], t)
        \* None is returned; ret.ts notes the entry that was dropped
        THEN [c1 EXCEPT !.entries = Pop(@, key),
                        !.ret = [NoReturn EXCEPT !.op = "get", !.key = key,
                                                 !.ts = found[1].ts]]
        ELSE [c1 EXCEPT !.ret = [NoReturn EXCEPT
                                   !.op = "get", !.key = key, !.hit = TRUE,
                                   !.value = found[1].value,
                                   !.ts = found[1].ts]]

CacheSet(key, value) ==
    /\ cache.which # "none"
    /\ cache' = cache_set(cache, key, value, now)
    /\ UNCHANGED <<tokenVars, stream, image, conv, moreVars>>

CacheGet(key) ==
    /\ cache.which # "none"
    /\ cache' = cache_get(cache, key, now)
    /\ UNCHANGED <<tokenVars, stream, image, conv, moreVars>>

\* An operation on the sibling cache of the same module: _maybe_cleanup runs.
CacheSweep ==
    /\ cache.which \in {"reasoning", "tool"}
    /\ cache' = [_maybe_cleanup(cache, now) EXCEPT !.ret = NoReturn]
    /\ cache' # cache
    /\ UNCHANGED <<tokenVars, stream, image, conv, moreVars>>

\* time.time() moves on.
CacheTick(d) ==
    /\ cache.which # "none"
    /\ cache.ticks < MaxCacheTicks
    /\ now' = now + d
    /\ cache' = [cache EXCEPT !.ticks = @ + 1, !.ret = NoReturn]
    /\ UNCHANGED <<projects, current_index, current_usage_count, rotation_count,
                   refresh_lock, file, req, picks, last_pick, stream, image,
                   conv, moreVars>>

InitCache ==
    /\ projects = <<>>
    /\ current_index = 0
    /\ current_usage_count = 0
    /\ rotation_count = 1
    /\ refresh_lock = 0
    /\ file = <<>>
    /\ now = 1000
    /\ req = [r \in Reqs |-> IdleReq]
    /\ picks = <<>>
    /\ last_pick = NoPick
    /\ stream = NoStream
    /\ image = NoImage
    /\ conv = NoConv
    /\ turn = NoTurn
    /\ auth = NoAuth
    /\ dir = NoDir
    /\ \E which \in CacheNames : cache = [NoCache EXCEPT !.which = which]

NextCache ==
    \/ \E key \in CacheKeys, value \in CacheValues : CacheSet(key, value)
    \/ \E key \in CacheKeys : CacheGet(key)
    \/ CacheSweep
    \/ \E d \in CacheSteps : CacheTick(d)

SpecCache == InitCache /\ [][NextCache]_vars


\* ------------------------------------------------ tool names in conversion
NameCap    == 2      \* cleaned[:128]: 128 in the code, scaled down
MaxNameLen == 3      \* longest tool name of a request
MaxTools   == 2      \* longest tools list of a request

\* A name is a sequence of characters, told apart as the code does:
\*   "a"  a character of [a-zA-Z0-9-], kept as it is
\*   "_"  the underscore, kept but stripped at both ends
\*   "!"  any other character (a space, a dot), replaced by "_"
\* The two literal names of the code are shorter than the cap and are one
\* character here: "T" is "tool" and "U" is "unnamed_function".
NameChars == {"a", "_", "!"}
TOOL    == <<"T">>
UNNAMED == <<"U">>

\* The names a request may give a tool; <<>> models a missing or empty name.
ToolNames ==
    UNION { [1..n -> NameChars] : n \in 0..MaxNameLen }

\* ---- the parameters schema of a tool
\* A schema value: not a dict at all, or a dict with its "type" ("": none
\* given) and the subschemas of its "properties".
NotADict == [dict |-> FALSE, type |-> "", properties |-> <<>>]

Schema(type, properties) ==
    [dict |-> TRUE, type |-> type, properties |-> properties]

SUPPORTED_SCHEMA_TYPES == {"string", "object"}

\* schema_type.lower()
lower_type(type) == IF type = "String" THEN "string" ELSE type

\* convert_tools on func["parameters"]: a non-dict becomes {}, a missing
\* type becomes "object".
tool_parameters(parameters) ==
    IF ~parameters.dict THEN Schema("object", <<>>)
    ELSE IF parameters.type = "" THEN [parameters EXCEPT !.type = "object"]
    ELSE parameters

\* normalize_schema: the type is lower-cased, in the schema and in the dicts
\* among its properties.
RECURSIVE normalize_schema(_)
normalize_schema(schema) ==
    IF ~schema.dict THEN schema
    ELSE [schema EXCEPT
            !.type = lower_type(@),
            !.properties = [i \in DOMAIN @ |-> normalize_schema(@[i])]]

\* _validate_schema_recursive: whether it appends an error.
RECURSIVE schema_errors(_)
schema_errors(schema) ==
    \/ ~schema.dict
    \/ schema.type # "" /\ schema.type \notin SUPPORTED_SCHEMA_TYPES
    \/ \E i \in DOMAIN schema.properties : schema_errors(schema.properties[i])

\* validate_schema that looks at the schema itself and not at what is
\* nested in it.
validate_schema_top_only(schema) ==
    /\ schema.dict
    /\ schema.type = "" \/ schema.type \in SUPPORTED_SCHEMA_TYPES

validate_schema(schema) == ~schema_errors(schema)

\* Whether the parameters of a tool get through convert_tools' validation.
schema_ok(tool) ==
    validate_schema(normalize_schema(tool_parameters(tool.parameters)))

\* An entry of the request's tools list: its "type", its function name, and
\* its parameters, one schema that passes validate_schema and one that does
\* not.
OpenAITools ==
    [type : {"function", "retrieval"}, name : ToolNames,
     parameters : {Schema("object", <<Schema("String", <<>>)>>),
                   Schema("object", <<Schema("frob", <<>>)>>)}]

\* re.sub(r"[^a-zA-Z0-9_-]", "_", name)
ReplaceUnsafe(name) ==
    [i \in 1..Len(name) |-> IF name[i] = "!" THEN "_" ELSE name[i]]

\* re.sub(r"^_+|_+$", "", cleaned)
StripUnderscores(name) ==
    LET keep == { i \in 1..Len(name) : name[i] # "_" }
    IN  IF keep = {} THEN <<>>
        ELSE SubSeq(name, CHOOSE i \in keep : \A j \in keep : i <= j,
                          CHOOSE i \in keep : \A j \in keep : i >= j)

\* cleaned[:128]
Truncated(name) == IF Len(name) > NameCap THEN SubSeq(name, 1, NameCap) ELSE name

\* sanitize_tool_name without the replacement of unsafe characters.
sanitize_keeps_unsafe(name) ==
    IF name = <<>> THEN TOOL
    ELSE LET cleaned == StripUnderscores(name)
         IN  Truncated(IF cleaned = <<>> THEN TOOL ELSE cleaned)

sanitize_tool_name(name) ==
    IF name = <<>> THEN TOOL
    ELSE LET cleaned == StripUnderscores(ReplaceUnsafe(name))
         IN  Truncated(IF cleaned = <<>> THEN TOOL ELSE cleaned)

\* func.get("name") or "unnamed_function"
original_name(tool) == IF tool.name = <<>> THEN UNNAMED ELSE tool.name

\* tool_name_cache._make_key
ToolNameKey(sid, model, safe_name) == <<sid, model, safe_name>>

\* convert_tools from tool i on: the declared names, and the tool-name cache
\* after the set_tool_name_mapping calls (made before the schema is looked
\* at, when there is a session and the safe name differs).
RECURSIVE convert_tools(_, _, _, _, _, _)
convert_tools(tools, i, sid, model, c, t) ==
    IF i > Len(tools) THEN [declared |-> <<>>, cache |-> c]
    ELSE IF tools[i].type # "function"
    THEN convert_tools(tools, i + 1, sid, model, c, t)
    ELSE LET orig == original_name(tools[i])
             safe == sanitize_tool_name(orig)
             c1   == IF sid # 0 /\ model # <<>> /\ safe # orig
                     THEN cache_set(c, ToolNameKey(sid, model, safe), orig, t)
                     ELSE c
             rest == convert_tools(tools, i + 1, sid, model, c1, t)
         IN  IF schema_ok(tools[i])
             THEN [rest EXCEPT !.declared = <<safe>> \o @]
             ELSE rest

\* A model name is a sequence of words; str.lower() works word by word.
lower_word(w) ==
    CASE w = "Gemini" -> "gemini"
      [] w = "-IMAGE" -> "-image"
      [] OTHER        -> w

lower(name) == [i \in DOMAIN name |-> lower_word(name[i])]

HasWord(name, w) == \E i \in DOMAIN name : name[i] = w

ModelNames == {<<"gemini", "-2.5-flash">>,
               <<"gemini", "-2.5-pro">>,
               <<"claude", "-sonnet", "-thinking">>,
               <<"gpt-oss-120b-medium">>,
               <<"gemini", "-3-pro", "-image">>,
               <<"Gemini", "-3-pro", "-IMAGE">>,
               <<"gemini", "-3-pro", "-image", "-preview">>}

is_enable_thinking(model) ==
    LET name == lower(model) IN
    /\ model # <<>>
    /\ \/ HasWord(name, "-thinking")
       \/ name = <<"gemini", "-2.5-pro">>
       \/ Len(name) >= 3 /\ name[1] = "gemini" /\ name[2] = "-3-pro"
       \/ name = <<"gpt-oss-120b-medium">>

\* is_image_model that tells upper case from lower case.
is_image_model_exact(model) ==
    model # <<>> /\ model[Len(model)] = "-image"

\* str(model).lower().endswith("-image")
is_image_model(model) ==
    model # <<>> /\ lower(model)[Len(model)] = "-image"

\* prepare_image_request: the generation config is forced, and the system
\* instruction, tools and toolConfig are dropped.
prepare_image_request(body) ==
    [body EXCEPT !.requestType = "image_gen",
                 !.generationConfig = {<<"candidateCount", "1">>},
                 !.systemInstruction = <<>>,
                 !.tools = <<>>, !.toolConfig = ""]

\* The options of a chat request that the model follows, by their keys.
RequestOptions == {"temperature", "top_p", "n"}

\* generation_config of openai_to_google, as its items: the options the
\* request gives, the default stop sequences and the thinking config.
generation_config(request) ==
    LET enable_thinking == is_enable_thinking(request.model)
        given ==
            {<<"temperature", "given">> : k \in request.options \cap {"temperature"}}
            \cup {<<"topP", "given">> : k \in request.options \cap {"top_p"}}
            \cup {<<"candidateCount", "n">> : k \in request.options \cap {"n"}}
            \cup {<<"stopSequences", "default">>,
                  <<"thinkingConfig", IF enable_thinking THEN "on" ELSE "off">>}
    IN  IF enable_thinking /\ HasWord(lower(request.model), "claude")
        THEN given \ {<<"topP", "given">>}
        ELSE given

STREAM_SUFFIX     == "/v1internal:streamGenerateContent?alt=sse"
NON_STREAM_SUFFIX == "/v1internal:generateContent"

\* openai_to_google on the request, declared being what convert_tools gives:
\* the body and the URL suffix.
openai_to_google(request, declared) ==
    LET b0 == [NoBody EXCEPT
                 !.systemInstruction = request.system,
                 !.generationConfig = generation_config(request)]
        body == IF declared # <<>>
                THEN [b0 EXCEPT !.tools = declared, !.toolConfig = "VALIDATED"]
                ELSE b0
    IN  [body |-> IF is_image_model(request.model)
                  THEN prepare_image_request(body) ELSE body,
         url_suffix |-> IF is_image_model(request.model) THEN NON_STREAM_SUFFIX
                        ELSE IF request.stream THEN STREAM_SUFFIX
                        ELSE NON_STREAM_SUFFIX]

\* A chat request arrives with its model, its tools and the session_id the
\* handler passes on.
NewConv(model, sid, tools) ==
    [NoConv EXCEPT !.pc = "request", !.model = model, !.session_id = sid,
                   !.tools = tools]

\* RequestConverter.openai_to_google runs on the request.
ConvertRequest ==
    /\ conv.pc = "request"
    /\ LET r == convert_tools(conv.tools, 1, conv.session_id, conv.model,
                              cache, now)
           g == openai_to_google(conv, r.declared)
       IN  /\ cache' = r.cache
           /\ conv' = [conv EXCEPT !.pc = "converted", !.body = g.body,
                                    !.url_suffix = g.url_suffix]
    /\ UNCHANGED <<tokenVars, stream, image, moreVars>>

\* ResponseConverter.google_non_stream_to_openai (google_sse_to_openai does
\* the same) meets a functionCall part with the name `safe`: the name it
\* reports.  The upstream calls one of the functions of the request.
ConvertResponse(i) ==
    /\ conv.pc = "converted"
    /\ i <= Len(conv.tools)
    /\ conv.tools[i].type = "function"
    /\ LET safe == sanitize_tool_name(original_name(conv.tools[i])) IN
       IF conv.session_id # 0
       THEN /\ cache' = cache_get(cache,
                            ToolNameKey(conv.session_id, conv.model, safe), now)
            /\ conv' = [conv EXCEPT
                          !.pc = "responded", !.call = safe,
                          !.reported = IF cache'.ret.hit THEN cache'.ret.value
                                       ELSE safe]
       ELSE /\ conv' = [conv EXCEPT !.pc = "responded", !.call = safe,
                                    !.reported = safe]
            /\ UNCHANGED cache
    /\ UNCHANGED <<tokenVars, stream, image, moreVars>>

InitConv ==
    /\ projects = <<>>
    /\ current_index = 0
    /\ current_usage_count = 0
    /\ rotation_count = 1
    /\ refresh_lock = 0
    /\ file = <<>>
    /\ now = 1000
    /\ req = [r \in Reqs |-> IdleReq]
    /\ picks = <<>>
    /\ last_pick = NoPick
    /\ stream = NoStream
    /\ image = NoImage
    /\ turn = NoTurn
    /\ auth = NoAuth
    /\ dir = NoDir
    /\ cache = [NoCache EXCEPT !.which = "tool_name"]
    /\ \E model \in {<<"gemini", "-2.5-flash">>,
                      <<"gemini", "-3-pro", "-image">>}, sid \in {0, 1},
          n \in 0..MaxTools :
          \E tools \in [1..n -> OpenAITools] : conv = NewConv(model, sid, tools)

NextConv ==
    \/ ConvertRequest
    \/ \E i \in 1..MaxTools : ConvertResponse(i)

SpecConv == InitConv /\ [][NextConv]_vars

\* ---- chat requests for every kind of model
\* The tools lists of these requests: none, or one tool.
FewTools ==
    {<<>>} \cup {<<t>> : t \in [type : {"function", "retrieval"},
                                name : {<<"a">>, <<"a", "!">>},
                                parameters :
                                    {Schema("object", <<>>),
                                     Schema("frob", <<>>)}]}

\* A chat request arrives with its model, stream flag, system message,
\* options and tools.
InitModels ==
    /\ projects = <<>>
    /\ current_index = 0
    /\ current_usage_count = 0
    /\ rotation_count = 1
    /\ refresh_lock = 0
    /\ file = <<>>
    /\ now = 1000
    /\ req = [r \in Reqs |-> IdleReq]
    /\ picks = <<>>
    /\ last_pick = NoPick
    /\ stream = NoStream
    /\ image = NoImage
    /\ turn = NoTurn
    /\ auth = NoAuth
    /\ dir = NoDir
    /\ cache = [NoCache EXCEPT !.which = "tool_name"]
    /\ \E model \in ModelNames, sid \in {0, 1}, tools \in FewTools,
          flag \in BOOLEAN, system \in {<<>>, <<"be brief">>},
          options \in SUBSET RequestOptions :
          conv = [NewConv(model, sid, tools) EXCEPT
                    !.stream = flag, !.system = system, !.options = options]

NextModels == ConvertRequest

SpecModels == InitModels /\ [][NextModels]_vars

\* ---- chat requests whose tools carry every kind of schema
SchemaTypes == {"", "object", "String", "frob"}

PropertySchemas == {NotADict} \cup { Schema(ty, <<>>) : ty \in SchemaTypes }

ParameterSchemas ==
    {NotADict}
        \cup { Schema(ty, ps) : ty \in SchemaTypes,
                 ps \in {<<>>} \cup { <<sub>> : sub \in PropertySchemas } }

SchemaTools ==
    [type : {"function"}, name : {<<"a">>, <<"a", "!">>},
     parameters : ParameterSchemas]

InitSchemas ==
    /\ projects = <<>>
    /\ current_index = 0
    /\ current_usage_count = 0
    /\ rotation_count = 1
    /\ refresh_lock = 0
    /\ file = <<>>
    /\ now = 1000
    /\ req = [r \in Reqs |-> IdleReq]
    /\ picks = <<>>
    /\ last_pick = NoPick
    /\ stream = NoStream
    /\ image = NoImage
    /\ turn = NoTurn
    /\ auth = NoAuth
    /\ dir = NoDir
    /\ cache = [NoCache EXCEPT !.which = "tool_name"]
    /\ \E sid \in {0, 1}, n \in 1..MaxTools :
          \E tools \in [1..n -> SchemaTools] :
              conv = NewConv(<<"gemini", "-2.5-flash">>, sid, tools)

NextSchemas == ConvertRequest

SpecSchemas == InitSchemas /\ [][NextSchemas]_vars

\* ------------------------------------------------ messages in conversion
MaxCalls == 2      \* most tool calls of one assistant message

\* The fallback signatures, each a long constant string of the code.
CLAUDE_THOUGHT_SIGNATURE  == "CLAUDE_THOUGHT_SIGNATURE"
GEMINI_THOUGHT_SIGNATURE  == "GEMINI_THOUGHT_SIGNATURE"
TOOL_THOUGHT_SIGNATURE    == "TOOL_THOUGHT_SIGNATURE"
DEFAULT_THOUGHT_SIGNATURE == CLAUDE_THOUGHT_SIGNATURE

get_thought_signature_for_model(model) ==
    LET model_name == lower(model) IN
    IF HasWord(model_name, "gemini") THEN GEMINI_THOUGHT_SIGNATURE
    ELSE IF HasWord(model_name, "claude") THEN CLAUDE_THOUGHT_SIGNATURE
    ELSE DEFAULT_THOUGHT_SIGNATURE

get_tool_thought_signature_for_model(model) ==
    IF HasWord(lower(model), "claude") THEN CLAUDE_THOUGHT_SIGNATURE
    ELSE TOOL_THOUGHT_SIGNATURE

\* An optional string is <<>> (the key is absent, or None) or <<s>>.
\* isinstance(v, str) and v
Truthy(opt) == opt # <<>> /\ opt[1] # ""

\* a or b, of two optional strings
Either(a, b) == IF Truthy(a) THEN a ELSE b

\* ---- the three caches of the process
_make_key(sid, model) == <<sid, model>>

\* _maybe_cleanup of signature_cache.py prunes both signature caches.
SigCleanup(cs, t) ==
    [cs EXCEPT !.reasoning = _maybe_cleanup(@, t),
               !.tool      = _maybe_cleanup(@, t)]

\* sig is <<>> (None or "") or <<signature>>
set_reasoning_signature(cs, sid, model, sig, t) ==
    LET s == IF Truthy(sig) THEN SigCleanup(cs, t) ELSE cs
    IN  [s EXCEPT !.reasoning = cache_set(@, _make_key(sid, model),
                                          IF Truthy(sig) THEN sig ELSE <<>>, t)]

set_tool_signature(cs, sid, model, sig, t) ==
    LET s == IF Truthy(sig) THEN SigCleanup(cs, t) ELSE cs
    IN  [s EXCEPT !.tool = cache_set(@, _make_key(sid, model),
                                     IF Truthy(sig) THEN sig ELSE <<>>, t)]

\* The caches after the call; what it returns is Returned(cs.reasoning).
get_reasoning_signature(cs, sid, model, t) ==
    [SigCleanup(cs, t) EXCEPT
       !.reasoning = cache_get(@, _make_key(sid, model), t)]

get_tool_signature(cs, sid, model, t) ==
    [SigCleanup(cs, t) EXCEPT !.tool = cache_get(@, _make_key(sid, model), t)]

\* What the last get on the cache c returned: <<>> models None.
Returned(c) == IF c.ret.hit THEN c.ret.value ELSE <<>>

set_tool_name_mapping(cs, sid, model, safe_name, original, t) ==
    IF safe_name = <<>> \/ original = <<>> \/ safe_name = original
    THEN cs
    ELSE [cs EXCEPT !.names = cache_set(@, ToolNameKey(sid, model, safe_name),
                                        original, t)]

\* The caches after the call; what it returns is Returned(cs.names).
get_original_tool_name(cs, sid, model, safe_name, t) ==
    IF safe_name = <<>> THEN [cs EXCEPT !.names.ret = NoReturn] ELSE
    [cs EXCEPT !.names = cache_get(@, ToolNameKey(sid, model, safe_name), t)]

\* ---- parts of the internal (Gemini) format
\* A part, by the keys the converters look at; <<>> is an absent key.
NoPart == [thought |-> FALSE, text |-> <<>>, functionCall |-> <<>>,
           functionResponse |-> <<>>, thoughtSignature |-> <<>>,
           inlineData |-> FALSE]

TextPart(text) == [NoPart EXCEPT !.text = <<text>>]

ThoughtPart(text) == [NoPart EXCEPT !.text = <<text>>, !.thought = TRUE]

SignaturePart(text, sig) ==
    [NoPart EXCEPT !.text = <<text>>, !.thoughtSignature = sig]

\* func_sig is a thoughtSignature inside the functionCall object, which only
\* the upstream writes.
FunctionCallPart(id, name, args, sig, func_sig) ==
    [NoPart EXCEPT
       !.functionCall = <<[id |-> id, name |-> name, args |-> args,
                           thoughtSignature |-> func_sig]>>,
       !.thoughtSignature = sig]

FunctionResponsePart(id, name, output) ==
    [NoPart EXCEPT
       !.functionResponse = <<[id |-> id, name |-> name, output |-> output]>>]

UNKNOWN == <<"K">>      \* the name "unknown_function"

\* ---- arguments of a tool call, by what the converters do with them
\*   "dict"     a JSON object            "json"     its json.dumps string
\*   "blank"    a string of blanks       "badjson"  a string json.loads rejects
\*   "other"    neither a string nor a dict
ArgumentForms == {"dict", "json", "blank", "badjson", "other"}

\* The args of the functionCall part: "object" is the JSON object, "empty"
\* is {}, "query" is {"query": <the string>}.
function_call_args(args_data) ==
    CASE args_data = "json"    -> "object"
      [] args_data = "blank"   -> "empty"
      [] args_data = "badjson" -> "query"
      [] args_data = "dict"    -> "object"
      [] OTHER                 -> "empty"

\* json.dumps(args, ensure_ascii=False) of the response converters.
json_dumps(args) ==
    CASE args = "object" -> "json"
      [] args = "empty"  -> "json_empty"
      [] OTHER           -> "json_query"

\* ---- tool_call_info_map: a dict, as its items
InfoOf(map, id) == SelectSeq(map, LAMBDA e : e.id = id)

InfoPut(map, id, name, sig) ==
    LET e == [id |-> id, name |-> name, thoughtSignature |-> sig] IN
    IF InfoOf(map, id) # <<>>
    THEN [i \in 1..Len(map) |-> IF map[i].id = id THEN e ELSE map[i]]
    ELSE Append(map, e)

FirstGenerated == 101    \* ids the converters make up are 101, 102, ...

\* The loop over msg.tool_calls from call i on.  acc holds the parts, the
\* tool_call_info_map, the caches and the next made-up id.
RECURSIVE convert_tool_calls(_, _, _, _, _, _, _)
convert_tool_calls(calls, i, sid, model, enable_thinking, acc, t) ==
    IF i > Len(calls) THEN acc
    ELSE IF calls[i].type # "function" \/ calls[i].name = <<>>
    THEN convert_tool_calls(calls, i + 1, sid, model, enable_thinking, acc, t)
    ELSE
    LET tc        == calls[i]
        given     == tc.id # 0
        id        == IF given THEN tc.id ELSE acc.fresh
        safe_name == sanitize_tool_name(tc.name)
        cs1  == IF sid # 0 /\ model # <<>> /\ safe_name # tc.name
                THEN set_tool_name_mapping(acc.cs, sid, model, safe_name,
                                           tc.name, t)
                ELSE acc.cs
        look == enable_thinking /\ ~Truthy(tc.thoughtSignature)
        cs2  == IF look THEN get_tool_signature(cs1, sid, model, t) ELSE cs1
        signature ==
            IF Truthy(tc.thoughtSignature) THEN tc.thoughtSignature
            ELSE IF look
            THEN Either(Returned(cs2.tool),
                        <<get_tool_thought_signature_for_model(model)>>)
            ELSE <<>>
        part == FunctionCallPart(id, safe_name,
                                 function_call_args(tc.arguments),
                                 IF enable_thinking THEN signature ELSE <<>>,
                                 <<>>)
    IN  convert_tool_calls(calls, i + 1, sid, model, enable_thinking,
            [acc EXCEPT
               !.parts = Append(@, part),
               !.map   = InfoPut(@, id, safe_name, signature),
               !.cs    = cs2,
               !.fresh = IF given THEN @ ELSE @ + 1], t)

\* ---- messages of a chat request
\* A message, by the keys extract_system_instruction reads; <<>> is an absent
\* key (or None) and tool_call_id 0 an absent or empty one.
NoMessage == [role |-> "user", content |-> <<>>, reasoning_content |-> <<>>,
              thoughtSignature |-> <<>>, tool_calls |-> <<>>,
              tool_call_id |-> 0, name |-> <<>>]

\* One element of msg.tool_calls; id 0 is an absent or empty id.
ToolCall(type, id, name, sig, arguments) ==
    [type |-> type, id |-> id, name |-> name, thoughtSignature |-> sig,
     arguments |-> arguments]

\* The assistant branch: the parts of the model entry, and what the tool
\* calls leave in acc.
assistant_parts(msg, sid, model, enable_thinking, acc, t) ==
    LET look == enable_thinking /\ ~Truthy(msg.thoughtSignature)
        cs1  == IF look THEN get_reasoning_signature(acc.cs, sid, model, t)
                ELSE acc.cs
        reasoning_text == IF Truthy(msg.reasoning_content)
                          THEN msg.reasoning_content[1] ELSE " "
        reasoning_signature ==
            IF Truthy(msg.thoughtSignature) THEN msg.thoughtSignature
            ELSE Either(Returned(cs1.reasoning),
                        <<get_thought_signature_for_model(model)>>)
        thinking == IF enable_thinking
                    THEN <<ThoughtPart(reasoning_text),
                           SignaturePart(" ", reasoning_signature)>>
                    ELSE <<>>
        text == IF msg.content # <<>> /\ msg.content # <<"">>
                THEN <<TextPart(msg.content[1])>> ELSE <<>>
    IN  convert_tool_calls(msg.tool_calls, 1, sid, model, enable_thinking,
                           [acc EXCEPT !.parts = thinking \o text,
                                       !.cs = cs1], t)

\* The functionResponse part of a tool message.
convert_tool_message(msg, map) ==
    LET info == IF msg.tool_call_id # 0 THEN InfoOf(map, msg.tool_call_id)
                ELSE <<>>
        named == IF info # <<>> /\ info[1].name # <<>> THEN info[1].name
                 ELSE msg.name
        tool_name == IF named # <<>> THEN sanitize_tool_name(named)
                     ELSE UNKNOWN
        output == IF msg.content = <<>> THEN "" ELSE msg.content[1]
    IN  FunctionResponsePart(msg.tool_call_id, tool_name, output)

Entry(role, parts) == [role |-> role, parts |-> parts]

\* HasFunctionResponse that never finds one: every tool message opens an
\* entry.
HasFunctionResponseNever(entry) == FALSE

\* any("functionResponse" in part for part in last_entry["parts"])
HasFunctionResponse(entry) ==
    \E i \in 1..Len(entry.parts) : entry.parts[i].functionResponse # <<>>

\* The contents after a tool message: its functionResponse joins the user
\* entry before it when that one holds functionResponse parts.
AddFunctionResponse(contents, part) ==
    LET n == Len(contents) IN
    IF n > 0 /\ contents[n].role = "user" /\ HasFunctionResponse(contents[n])
    THEN [contents EXCEPT ![n].parts = Append(@, part)]
    ELSE Append(contents, Entry("user", <<part>>))

\* The loop of extract_system_instruction over the messages from i on, past
\* the system messages.  acc holds contents, the tool_call_info_map, the
\* caches and the next made-up id (parts is scratch of the assistant branch).
RECURSIVE extract_system_instruction(_, _, _, _, _, _, _)
extract_system_instruction(messages, i, sid, model, enable_thinking, acc, t) ==
    IF i > Len(messages) THEN acc
    ELSE
    LET msg == messages[i]
        a   == assistant_parts(msg, sid, model, enable_thinking, acc, t)
        next ==
            CASE msg.role = "assistant" ->
                   [a EXCEPT
                      !.contents = Append(acc.contents,
                          Entry("model", IF a.parts # <<>> THEN a.parts
                                         ELSE <<TextPart("")>>)),
                      !.parts = <<>>]
              [] msg.role = "tool" ->
                   [acc EXCEPT
                      !.contents = AddFunctionResponse(
                          @, convert_tool_message(msg, acc.map))]
              [] OTHER ->
                   [acc EXCEPT
                      !.contents = Append(@, Entry("user",
                          <<TextPart(IF msg.content = <<>> THEN ""
                                     ELSE msg.content[1])>>))]
    IN  extract_system_instruction(messages, i + 1, sid, model,
                                   enable_thinking, next, t)

\* ---- one chat request: its messages are converted
NoAcc == [contents |-> <<>>, parts |-> <<>>, map |-> <<>>, cs |-> NoCaches,
          fresh |-> FirstGenerated]

NewTurn(model, sid) ==
    [NoTurn EXCEPT !.pc = "request", !.model = model, !.session_id = sid]

\* RequestConverter.openai_to_google runs on the messages.
ConvertMessages(messages) ==
    /\ turn.pc = "request"
    /\ LET r == extract_system_instruction(
                    messages, 1, turn.session_id, turn.model,
                    is_enable_thinking(turn.model),
                    [NoAcc EXCEPT !.cs = turn.caches], now)
       IN  turn' = [turn EXCEPT !.pc = "converted", !.messages = messages,
                                !.caches = r.cs, !.contents = r.contents]
    /\ UNCHANGED <<tokenVars, stream, image, cache, conv, auth, dir>>

\* ---- the response converters
MaxParts == 2      \* longest parts list of a candidate

\* "".join(pieces), as the pieces that are not empty
Join(pieces) == SelectSeq(pieces, LAMBDA s : s # "")

IMAGE_MARKDOWN == "![image](url)"

\* The functionCall branch, the same code in both converters: the tool_call
\* entry and the caches afterwards.  index is <<>> where the entry has none.
tool_call_entry(part, index, sid, model, acc, t) ==
    LET func_call == part.functionCall[1]
        thought_signature ==
            Either(part.thoughtSignature, func_call.thoughtSignature)
        given == func_call.id # 0
        look  == sid # 0 /\ func_call.name # <<>>
        cs1   == IF look
                 THEN get_original_tool_name(acc.cs, sid, model,
                                             func_call.name, t)
                 ELSE acc.cs
        name  == IF look /\ Returned(cs1.names) # <<>>
                 THEN Returned(cs1.names) ELSE func_call.name
        cs2   == IF Truthy(thought_signature) /\ sid # 0
                 THEN set_tool_signature(cs1, sid, model, thought_signature, t)
                 ELSE cs1
        entry == [index |-> index,
                  id |-> IF given THEN func_call.id ELSE acc.fresh,
                  name |-> name,
                  arguments |-> json_dumps(func_call.args),
                  thoughtSignature |-> IF Truthy(thought_signature)
                                       THEN thought_signature ELSE <<>>]
    IN  [acc EXCEPT !.tool_calls = Append(@, entry),
                    !.cs = cs2,
                    !.fresh = IF given THEN @ ELSE @ + 1]

\* part.get("text", "")
TextOf(part) == IF part.text = <<>> THEN "" ELSE part.text[1]

\* sig = part.get("thoughtSignature"); if isinstance(sig, str) and sig: ...
Capture(part, acc) ==
    IF Truthy(part.thoughtSignature)
    THEN [acc EXCEPT !.reasoning_signature = part.thoughtSignature]
    ELSE acc

NoWalk == [text_parts |-> <<>>, reasoning_parts |-> <<>>, tool_calls |-> <<>>,
           image_urls |-> <<>>, reasoning_signature |-> <<>>,
           cs |-> NoCaches, fresh |-> FirstGenerated]

\* The loop of google_non_stream_to_openai over the parts from i on: an
\* if/elif chain.
RECURSIVE non_stream_parts(_, _, _, _, _, _)
non_stream_parts(parts, i, sid, model, acc, t) ==
    IF i > Len(parts) THEN acc
    ELSE
    LET part == parts[i]
        next ==
            CASE part.thought ->
                   Capture(part, [acc EXCEPT
                       !.reasoning_parts = Append(@, TextOf(part))])
              [] ~part.thought /\ part.text # <<>> ->
                   [acc EXCEPT !.text_parts = Append(@, TextOf(part))]
              [] ~part.thought /\ part.text = <<>>
                   /\ part.functionCall # <<>> ->
                   tool_call_entry(part, <<>>, sid, model, acc, t)
              [] ~part.thought /\ part.text = <<>>
                   /\ part.functionCall = <<>> /\ part.inlineData ->
                   Capture(part, [acc EXCEPT
                       !.image_urls = Append(@, IMAGE_MARKDOWN)])
              [] OTHER -> Capture(part, acc)
    IN  non_stream_parts(parts, i + 1, sid, model, next, t)

\* The loop of google_sse_to_openai over the parts from i on: a chain of
\* if ... continue.
RECURSIVE stream_parts(_, _, _, _, _, _)
stream_parts(parts, i, sid, model, acc, t) ==
    IF i > Len(parts) THEN acc
    ELSE
    LET part == parts[i]
        next ==
            CASE part.thought ->
                   Capture(part, [acc EXCEPT
                       !.reasoning_parts = Append(@, TextOf(part))])
              [] ~part.thought /\ part.functionCall # <<>> ->
                   tool_call_entry(part, <<Len(acc.tool_calls)>>, sid, model,
                                   acc, t)
              [] ~part.thought /\ part.functionCall = <<>>
                   /\ part.thoughtSignature # <<>> ->
                   Capture(part, acc)
              [] ~part.thought /\ part.functionCall = <<>>
                   /\ part.thoughtSignature = <<>> /\ part.text # <<>> ->
                   [acc EXCEPT !.text_parts = Append(@, TextOf(part))]
              [] OTHER -> acc
    IN  stream_parts(parts, i + 1, sid, model, next, t)

\* What both converters do after the walk with the reasoning signature:
\* the caches, and the signature the answer exposes.
AfterWalk(w, state_sig, sid, model, t) ==
    LET cs == IF w.reasoning_signature # <<>> /\ sid # 0
              THEN set_reasoning_signature(w.cs, sid, model,
                                           w.reasoning_signature, t)
              ELSE w.cs
        state == Either(w.reasoning_signature, state_sig)
    IN  [cs |-> cs,
         exposed |-> IF state # <<>> /\ (w.reasoning_parts # <<>>
                                         \/ w.reasoning_signature # <<>>)
                     THEN state ELSE <<>>]

\* state_reasoning_signature at the start of a conversion, and the caches as
\* the lookup leaves them.
StateSignature(cs, sid, model, t) ==
    IF sid # 0 THEN get_reasoning_signature(cs, sid, model, t) ELSE cs

\* google_non_stream_to_openai on a body with one candidate: the message
\* and the caches afterwards.
google_non_stream_to_openai(parts, sid, model, cs, t) ==
    LET cs0 == StateSignature(cs, sid, model, t)
        w   == non_stream_parts(parts, 1, sid, model,
                                [NoWalk EXCEPT !.cs = cs0], t)
        a   == AfterWalk(w, IF sid # 0 THEN Returned(cs0.reasoning) ELSE <<>>,
                         sid, model, t)
        content_text == Join(w.text_parts)
    IN  [message |->
           [content |->
              IF w.image_urls # <<>> THEN <<content_text \o w.image_urls>>
              ELSE IF content_text # <<>> THEN <<content_text>> ELSE <<>>,
            reasoning_content |->
              IF w.reasoning_parts # <<>> THEN <<Join(w.reasoning_parts)>>
              ELSE <<>>,
            thoughtSignature |-> a.exposed,
            tool_calls |-> w.tool_calls],
         cs |-> a.cs]

\* google_sse_to_openai on one line that holds one candidate, first of its
\* stream: the delta of its chunk and the caches afterwards.
google_sse_to_openai(parts, sid, model, cs, t) ==
    LET cs0 == StateSignature(cs, sid, model, t)
        w   == stream_parts(parts, 1, sid, model,
                            [NoWalk EXCEPT !.cs = cs0], t)
        a   == AfterWalk(w, IF sid # 0 THEN Returned(cs0.reasoning) ELSE <<>>,
                         sid, model, t)
    IN  [message |->
           [content |->
              IF w.text_parts # <<>> THEN <<Join(w.text_parts)>> ELSE <<>>,
            reasoning_content |->
              IF w.reasoning_parts # <<>> THEN <<Join(w.reasoning_parts)>>
              ELSE <<>>,
            thoughtSignature |-> a.exposed,
            tool_calls |-> w.tool_calls],
         cs |-> a.cs]

\* ---- the upstream answers a chat request
\* The parts the upstream may send.
UpstreamCalls ==
    {[id |-> 1, name |-> <<"a">>, args |-> "object", thoughtSignature |-> <<>>],
     [id |-> 0, name |-> <<"a">>, args |-> "empty",
      thoughtSignature |-> <<"f1">>]}

UpstreamParts ==
    [thought : BOOLEAN, text : {<<>>, <<"hi">>},
     functionCall : {<<>>} \cup {<<c>> : c \in UpstreamCalls},
     functionResponse : {<<>>},
     thoughtSignature : {<<>>, <<"s1">>},
     inlineData : BOOLEAN]
    \cup {TextPart(""), SignaturePart("hi", <<"">>)}

\* The upstream's answer arrives: one candidate with these parts.
UpstreamAnswers(parts) ==
    /\ turn.pc = "converted"
    /\ turn' = [turn EXCEPT !.pc = "answered", !.parts = parts]
    /\ UNCHANGED <<tokenVars, stream, image, cache, conv, auth, dir>>

\* The chat_completions handler of a non-stream request converts the answer.
NonStreamConvert ==
    /\ turn.pc = "answered"
    /\ turn.message = <<>>
    /\ LET r == google_non_stream_to_openai(turn.parts, turn.session_id,
                                            turn.model, turn.caches, now)
       IN  turn' = [turn EXCEPT !.message = <<r.message>>,
                                !.message_caches = r.cs]
    /\ UNCHANGED <<tokenVars, stream, image, cache, conv, auth, dir>>

\* The generator of a stream request converts the same answer, met as the
\* first line of the upstream stream with the caches in the same state.
StreamConvert ==
    /\ turn.pc = "answered"
    /\ turn.delta = <<>>
    /\ LET r == google_sse_to_openai(turn.parts, turn.session_id,
                                     turn.model, turn.caches, now)
       IN  turn' = [turn EXCEPT !.delta = <<r.message>>,
                                !.delta_caches = r.cs]
    /\ UNCHANGED <<tokenVars, stream, image, cache, conv, auth, dir>>

\* A request was converted and sent; a signature may have been captured for
\* its session before.
InitParts ==
    /\ projects = <<>>
    /\ current_index = 0
    /\ current_usage_count = 0
    /\ rotation_count = 1
    /\ refresh_lock = 0
    /\ file = <<>>
    /\ now = 1000
    /\ req = [r \in Reqs |-> IdleReq]
    /\ picks = <<>>
    /\ last_pick = NoPick
    /\ stream = NoStream
    /\ image = NoImage
    /\ cache = NoCache
    /\ conv = NoConv
    /\ auth = NoAuth
    /\ dir = NoDir
    /\ \E sid \in {0, 1}, prior \in {<<>>, <<"s0">>} :
          /\ sid = 0 => prior = <<>>
          /\ turn = [NewTurn(<<"gemini", "-2.5-pro">>, sid) EXCEPT
                       !.pc = "converted",
                       !.caches = set_reasoning_signature(
                                      NoCaches, sid, <<"gemini", "-2.5-pro">>,
                                      prior, now)]

NextParts ==
    \/ \E n \in 0..MaxParts :
          \E parts \in [1..n -> UpstreamParts] : UpstreamAnswers(parts)
    \/ NonStreamConvert
    \/ StreamConvert

SpecParts == InitParts /\ [][NextParts]_vars

\* ---- the messages of a request
\* The requests of a behaviour: an assistant message with tool calls and the
\* tool message that answers one of them.
SmallNames == {<<"a">>, <<"a", "_", "a">>, <<"!">>}

Calls(names) ==
    {ToolCall("function", id, n, <<>>, "json") : id \in 0..2, n \in names}

CallLists ==
    {<<c>> : c \in Calls(ToolNames)}
    \cup UNION {[1..n -> Calls(SmallNames)] : n \in 0..MaxCalls}

LinkedMessages ==
    {<<[NoMessage EXCEPT !.role = "assistant", !.tool_calls = calls],
       [NoMessage EXCEPT !.role = "tool", !.tool_call_id = id, !.name = name,
                         !.content = <<"out">>]>> :
        calls \in CallLists, id \in 0..3, name \in {<<>>, <<"a">>}}

\* ---- signatures from one answer to the next request
MaxSigTicks == 1      \* how many times the clock moves
MaxAnswers  == 3      \* answers converted before the request
\* Seconds by which the clock moves between two conversions.
SigSteps == {500, 1800, 1801}

\* The caches without the note of what the last call returned.
Quiet(cs) == [cs EXCEPT !.reasoning.ret = NoReturn, !.tool.ret = NoReturn,
                        !.names.ret = NoReturn]

Sessions == 1..MaxSessions

\* The candidate of an answer that carries the reasoning signature rsig and
\* the tool signature tsig (<<>>: carries none).
SignedCandidate(rsig, tsig) ==
    (IF rsig # <<>> THEN <<[ThoughtPart("why") EXCEPT !.thoughtSignature = rsig]>>
     ELSE <<>>)
    \o (IF tsig # <<>>
        THEN <<FunctionCallPart(1, <<"a">>, "object", tsig, <<>>)>>
        ELSE <<>>)

\* The answer to an earlier request of the session sid is converted.
\* captured notes, for each session, the last signature an answer carried
\* and when it was converted.
CapturingAnswer(sid, rsig, tsig) ==
    /\ turn.pc = "request"
    /\ turn.answers < MaxAnswers
    /\ rsig # <<>> \/ tsig # <<>>
    /\ LET r == google_non_stream_to_openai(SignedCandidate(rsig, tsig), sid,
                                            turn.model, turn.caches, now)
           note(old, sig) == IF sig # <<>>
                             THEN [old EXCEPT ![sid] = <<[sig |-> sig, ts |-> now]>>]
                             ELSE old
       IN  turn' = [turn EXCEPT
                      !.caches = Quiet(r.cs),
                      !.answers = @ + 1,
                      !.captured = [reasoning |-> note(@.reasoning, rsig),
                                    tool      |-> note(@.tool, tsig)]]
    /\ UNCHANGED <<tokenVars, stream, image, cache, conv, auth, dir>>

\* time.time() moves on between two conversions.
SigTick(d) ==
    /\ turn.pc = "request"
    /\ turn.ticks < MaxSigTicks
    /\ now' = now + d
    /\ turn' = [turn EXCEPT !.ticks = @ + 1]
    /\ UNCHANGED <<projects, current_index, current_usage_count, rotation_count,
                   refresh_lock, file, req, picks, last_pick, stream, image,
                   cache, conv, auth, dir>>

\* The requests of a behaviour: one assistant message with one tool call,
\* each with or without a signature of its own.
SignedMessages ==
    {<<[NoMessage EXCEPT
          !.role = "assistant", !.content = <<"hi">>,
          !.thoughtSignature = own,
          !.tool_calls = <<ToolCall("function", 1, <<"a">>, tool_own,
                                    "json")>>]>> :
        own \in {<<>>, <<"own">>}, tool_own \in {<<>>, <<"town">>}}

\* One model with thinking enabled of each family.
ThinkingModels ==
    {m \in {<<"gemini", "-2.5-pro">>, <<"claude", "-sonnet", "-thinking">>,
            <<"gpt-oss-120b-medium">>} : is_enable_thinking(m)}

InitSig ==
    /\ projects = <<>>
    /\ current_index = 0
    /\ current_usage_count = 0
    /\ rotation_count = 1
    /\ refresh_lock = 0
    /\ file = <<>>
    /\ now = 1000
    /\ req = [r \in Reqs |-> IdleReq]
    /\ picks = <<>>
    /\ last_pick = NoPick
    /\ stream = NoStream
    /\ image = NoImage
    /\ cache = NoCache
    /\ conv = NoConv
    /\ auth = NoAuth
    /\ dir = NoDir
    /\ \E model \in ThinkingModels, sid \in {0, 1} : turn = NewTurn(model, sid)

NextSig ==
    \/ \E sid \in Sessions,
          sigs \in {<<<<"s1">>, <<"t1">>>>, <<<<"s2">>, <<>>>>,
                    <<<<>>, <<"t2">>>>} :
          CapturingAnswer(sid, sigs[1], sigs[2])
    \/ \E d \in SigSteps : SigTick(d)
    \/ \E messages \in SignedMessages : ConvertMessages(messages)

SpecSig == InitSig /\ [][NextSig]_vars

\* The requests of a behaviour: one assistant message that is to make the
\* round trip, with at most one tool call.
RoundTripMessages ==
    {<<[NoMessage EXCEPT
          !.role = "assistant", !.content = content,
          !.reasoning_content = reasoning, !.thoughtSignature = own,
          !.tool_calls = calls]>> :
        content \in {<<>>, <<"hi">>}, reasoning \in {<<>>, <<"why">>},
        own \in {<<>>, <<"own">>},
        calls \in {<<>>} \cup
                  {<<ToolCall("function", 1, n, <<>>, a)>> :
                      n \in ToolNames \ {<<>>}, a \in {"json", "dict"}}}

\* The parts of the last model entry: the upstream sends the assistant turn
\* back as its answer.
ModelParts(contents) ==
    LET ms == SelectSeq(contents, LAMBDA e : e.role = "model")
    IN  IF ms = <<>> THEN <<>> ELSE ms[Len(ms)].parts

InitTurn ==
    /\ projects = <<>>
    /\ current_index = 0
    /\ current_usage_count = 0
    /\ rotation_count = 1
    /\ refresh_lock = 0
    /\ file = <<>>
    /\ now = 1000
    /\ req = [r \in Reqs |-> IdleReq]
    /\ picks = <<>>
    /\ last_pick = NoPick
    /\ stream = NoStream
    /\ image = NoImage
    /\ cache = NoCache
    /\ conv = NoConv
    /\ auth = NoAuth
    /\ dir = NoDir
    /\ \E model \in ModelNames, sid \in {0, 1} : turn = NewTurn(model, sid)

NextTurn ==
    \/ \E messages \in LinkedMessages \cup RoundTripMessages :
          ConvertMessages(messages)
    \/ UpstreamAnswers(ModelParts(turn.contents))
    \/ NonStreamConvert

SpecTurn == InitTurn /\ [][NextTurn]_vars

\* ---- runs of tool messages
MaxMessages == 4     \* longest messages list of a request

\* The messages of a request: user turns, assistant turns with at most one
\* tool call, and tool messages, in any order.
RunMessageKinds ==
    {[NoMessage EXCEPT !.role = "user", !.content = <<"ask">>],
     [NoMessage EXCEPT !.role = "assistant", !.content = <<"hi">>],
     [NoMessage EXCEPT !.role = "assistant",
         !.tool_calls = <<ToolCall("function", 1, <<"a">>, <<>>, "json")>>],
     [NoMessage EXCEPT !.role = "tool", !.tool_call_id = 1,
                       !.content = <<"out">>],
     [NoMessage EXCEPT !.role = "tool", !.tool_call_id = 2,
                       !.content = <<"out">>]}

RunMessages == UNION {[1..n -> RunMessageKinds] : n \in 1..MaxMessages}

NextRuns == \E messages \in RunMessages : ConvertMessages(messages)

SpecRuns == InitTurn /\ [][NextRuns]_vars

\* ------------------------------------------------------ the client's key
\* A header or query value is absent (<<>>, None) or a string; the
\* Authorization header is a string cut after its scheme: <<"Bearer ", k>>
\* is "Bearer k", <<k>> a bare key, <<"">> the empty string.
ClientKeys == {"k1", "k2", "zz"}

ApiKeySets == {{}, {"k1"}, {"k1", "k2"}}

Schemes == {"Bearer ", "bearer ", "Basic "}

AuthorizationValues ==
    {<<>>, <<"">>, <<"Bearer ">>}
        \cup { <<k>> : k \in ClientKeys }
        \cup { <<sc, k>> : sc \in Schemes, k \in ClientKeys }

KeyValues == {<<>>, <<"">>} \cup { <<k>> : k \in ClientKeys }

\* settings.validate_api_key: api_key in self.api_keys.
settings_validate_api_key(api_keys, api_key) == api_key \in api_keys

\* authorization.startswith("Bearer ")
StartsWithBearer(authorization) == authorization[1] = "Bearer "

\* authorization[7:]
AfterBearer(authorization) ==
    IF Len(authorization) = 1 THEN "" ELSE authorization[2]

\* validate_api_key: the first location that is allowed and carries a
\* non-empty value decides: ?key=, then X-Goog-Api-Key, then Authorization.
validate_api_key(api_keys, authorization, x_goog_api_key, allow_x_goog, query_key, allow_query) ==
    IF allow_query /\ Truthy(query_key)
    THEN settings_validate_api_key(api_keys, query_key[1])
    ELSE IF allow_x_goog /\ Truthy(x_goog_api_key)
    THEN settings_validate_api_key(api_keys, x_goog_api_key[1])
    ELSE IF ~Truthy(authorization) THEN FALSE
    ELSE IF ~StartsWithBearer(authorization) THEN FALSE
    ELSE settings_validate_api_key(api_keys, AfterBearer(authorization))

\* chat_completions, list_models: validate_api_key(authorization), else 401.
OpenAIRequest(authorization) ==
    /\ auth.pc # "none"
    /\ auth' = [auth EXCEPT
          !.pc = "checked", !.endpoint = "openai",
          !.authorization = authorization,
          !.x_goog_api_key = <<>>, !.key = <<>>,
          !.status = IF validate_api_key(auth.api_keys, authorization,
                                         <<>>, FALSE, <<>>, FALSE)
                     THEN 0 ELSE 401]
    /\ UNCHANGED <<tokenVars, stream, image, cache, conv, turn, dir>>

\* gemini_generate_content, gemini_stream_generate_content: the three
\* locations are handed to validate_api_key, else 401.
GeminiRequest(authorization, x_goog_api_key, key) ==
    /\ auth.pc # "none"
    /\ auth' = [auth EXCEPT
          !.pc = "checked", !.endpoint = "gemini",
          !.authorization = authorization,
          !.x_goog_api_key = x_goog_api_key, !.key = key,
          !.status = IF validate_api_key(auth.api_keys, authorization,
                                         x_goog_api_key, TRUE, key, TRUE)
                     THEN 0 ELSE 401]
    /\ UNCHANGED <<tokenVars, stream, image, cache, conv, turn, dir>>

InitAuth ==
    /\ projects = <<>>
    /\ current_index = 0
    /\ current_usage_count = 0
    /\ rotation_count = 1
    /\ refresh_lock = 0
    /\ file = <<>>
    /\ now = 1000
    /\ req = [r \in Reqs |-> IdleReq]
    /\ picks = <<>>
    /\ last_pick = NoPick
    /\ stream = NoStream
    /\ image = NoImage
    /\ cache = NoCache
    /\ conv = NoConv
    /\ turn = NoTurn
    /\ dir = NoDir
    /\ \E api_keys \in ApiKeySets :
          auth = [NoAuth EXCEPT !.pc = "ready", !.api_keys = api_keys]

NextAuth ==
    \/ \E authorization \in AuthorizationValues : OpenAIRequest(authorization)
    \/ \E authorization \in AuthorizationValues, x, key \in KeyValues :
          GeminiRequest(authorization, x, key)

SpecAuth == InitAuth /\ [][NextAuth]_vars


\* ================================================================ claims
AuthStatuses == {401, 403}

EnabledSet == { i \in 1..Len(projects) : projects[i].enabled }

ErrorKinds == {"http_error", "sse_error"}

LastStatus(rec) == rec.statuses[Len(rec.statuses)]

\* C1: a request calls disable_project iff its first attempt and its retry
\* were both answered 401/403; it then has called handle_auth_error exactly
\* once, calls disable_project exactly once with a reason holding "after
\* token refresh", and its client, whatever the endpoint, gets an error.
C1_DisableIffTwoAuthFailures ==
    \A r \in Reqs :
        LET rec == req[r]
            twice == /\ Len(rec.statuses) = 2
                     /\ rec.statuses[1] \in AuthStatuses
                     /\ rec.statuses[2] \in AuthStatuses
        IN  /\ (rec.disables >= 1) <=> twice
            /\ rec.disables <= 1
            /\ rec.disables = 1 =>
                 /\ rec.authCalls = 1
                 /\ ~projects[rec.project].enabled
                 /\ projects[rec.project].disabled_reason.text
                        = "Auth failed after token refresh"
                 /\ \A kind \in Kinds :
                        ClientResult(kind, rec).kind \in ErrorKinds

C1_Witness ==
    \E r \in Reqs :
        /\ req[r].disables = 1
        /\ req[r].statuses = <<401, 403>>
        /\ req[r].authPosts = 1

\* C2: when the upstream answers a request 401 and then 200, the retry was
\* sent with the token handle_auth_error returned, the client (whatever the
\* endpoint) gets the successful response made from the second answer, and
\* disable_project is not called.
C2_RetryThenSuccess ==
    \A r \in Reqs :
        LET rec == req[r]
        IN  rec.statuses = <<401, 200>> =>
                /\ rec.pc = "done"
                /\ rec.authCalls = 1
                /\ Len(rec.sent) = 2
                /\ rec.sent[2] = rec.authTok
                /\ rec.disables = 0
                /\ \A kind \in Kinds :
                       ClientResult(kind, rec) = Result("ok", 200, 200, "")

C2_Witness ==
    \E r \in Reqs :
        /\ req[r].statuses = <<401, 200>>
        /\ req[r].authTok # req[r].getTok
        /\ req[r].sent = <<req[r].getTok, req[r].authTok>>

\* C3: once handle_auth_error has returned to a request, that request has
\* posted to the OAuth endpoint and holds a token minted by that POST.
C3_AuthErrorForcesRefresh ==
    \A r \in Reqs :
        (req[r].authCalls = 1 /\ Len(req[r].sent) = 2) =>
            /\ req[r].authPosts = 1
            /\ req[r].authTok = MintedToken(r, "auth")

\* The requests that found project p expired in get_access_token, and
\* whether they were all inside its refresh at once.
FoundExpired(p) == { r \in Reqs : req[r].project = p /\ req[r].sawExpired }

Concurrent(S) ==
    \A a \in S, b \in S : a # b => (a \in req[b].overlap \/ b \in req[a].overlap)

PastGetToken(r) == req[r].pc \in {"upstream", "done"} /\ req[r].phase = "none"

Occurrences(p, lo, hi) == Cardinality({ j \in lo..hi : picks[j] = p })

\* C5: with the set E of enabled projects unchanged and rotation count r,
\* every run of k*r*|E| consecutive get_next_project calls returns each enabled
\* project exactly k*r times and no disabled project.
C5_RoundRobinFair ==
    LET n == rotation_count * Cardinality(EnabledSet)
    IN  n > 0 =>
          \A k \in 1..(Len(picks) \div n) :
            \A s \in 0..(Len(picks) - k * n) :
              \A p \in 1..Len(projects) :
                Occurrences(p, s + 1, s + k * n)
                    = IF p \in EnabledSet THEN k * rotation_count ELSE 0

C5_Witness ==
    /\ Cardinality(EnabledSet) = 2
    /\ rotation_count = 2
    /\ Len(picks) >= 2 * rotation_count * Cardinality(EnabledSet)

\* C6: get_next_project returns only a project that is enabled when it is
\* called, and never one that disable_project was called on before.
C6_PickOnlyEnabled ==
    [][ (PoolPick /\ last_pick'.ok) =>
            /\ projects[last_pick'.project].enabled
            /\ projects[last_pick'.project].disabled_reason.text
                   # "Auth failed after token refresh" ]_vars

C6_Witness ==
    /\ \E p \in 1..Len(projects) :
          /\ projects[p].disabled_reason.text = "Auth failed after token refresh"
          /\ current_index # p - 1
    /\ Len(projects) = 2
    /\ last_pick.ok
    /\ Len(picks) >= 2

\* C7: no step of the running gateway sets a project's enabled flag, in
\* memory or in the file, back to true.
C7_DisabledIsTerminal ==
    [][ \A i \in 1..Len(projects) :
            /\ ~projects[i].enabled => ~projects'[i].enabled
            /\ ~file[i].enabled => ~file'[i].enabled ]_vars

C7_Witness ==
    \E p \in 1..Len(projects), r \in Reqs :
        /\ ~projects[p].enabled
        /\ projects[p].disabled_reason.text = "Auth failed after token refresh"
        /\ req[r].project = p
        /\ req[r].disables = 0
        /\ req[r].authPosts = 1
        /\ req[r].end = "answered"
        /\ projects[p].access_token = req[r].authTok

\* C8: get_next_project raises "No projects configured" on an empty pool and
\* "All projects are disabled" when no project is enabled, leaving the cursor
\* and the usage counter as they were; with an enabled project it returns.
C8_PickErrors ==
    [][ PoolPick =>
          LET g == last_pick'
              some == \E i \in 1..Len(projects) : projects[i].enabled
          IN  /\ Len(projects) = 0 =>
                    /\ ~g.ok /\ g.err = "No projects configured"
                    /\ UNCHANGED <<current_index, current_usage_count>>
              /\ (Len(projects) > 0 /\ ~some) =>
                    /\ ~g.ok /\ g.err = "All projects are disabled"
                    /\ UNCHANGED <<current_index, current_usage_count>>
              /\ some => g.ok /\ g.project \in 1..Len(projects) ]_vars

C8_Witness ==
    /\ ~last_pick.ok
    /\ last_pick.err = "All projects are disabled"
    /\ current_usage_count >= 1
    /\ current_index = 1

\* C9: a request sends at most two upstream POSTs and calls handle_auth_error
\* at most once; the answer to the retry, whatever it is, ends the request.
C9_SingleShotRetry ==
    \A r \in Reqs :
        /\ Len(req[r].sent) <= 2
        /\ req[r].authCalls <= 1
        /\ req[r].authPosts <= 1
        /\ Len(req[r].statuses) = 2 => req[r].pc = "done"

C9_Witness ==
    \E r \in Reqs :
        /\ req[r].statuses = <<401, 401>>
        /\ req[r].pc = "done"
        /\ Len(req[r].sent) = 2

\* C10: on the non-stream chat path and the models path, a final upstream
\* status other than 200 reaches the client as an HTTP error with that same
\* status code.
C10_UpstreamStatusPassedOn ==
    \A r \in Reqs :
        (req[r].end = "answered" /\ LastStatus(req[r]) # 200) =>
            \A kind \in {"chat", "models"} :
                /\ ClientResult(kind, req[r]).kind = "http_error"
                /\ ClientResult(kind, req[r]).status = LastStatus(req[r])

\* ---------------------------------------------------------------- C11-C14
Last(seq) == seq[Len(seq)]

EventsOfType(out, t) == { k \in 1..Len(out) : out[k].type = t }

\* C11: every SSE response of a streaming chat completion ends with
\* "data: [DONE]": a stream_google_to_openai generator that has finished, on
\* whatever path (normal completion, upstream non-200, auth failure after
\* the retry, timeout, another exception), and a stream_image_to_openai
\* generator that ran to its end, have the terminator as their last event.
C11_EveryStreamEndsWithDone ==
    /\ stream.pc = "closed" =>
           /\ stream.out # <<>>
           /\ Last(stream.out) = DoneEvent
    /\ (image.pc = "closed" /\ image.raised = "") =>
           /\ image.out # <<>>
           /\ Last(image.out) = DoneEvent

\* The upstream body was read to its end (no timeout, no broken connection).
PumpedToEnd ==
    /\ stream.pc = "closed"
    /\ stream.out # <<>>
    /\ Last(stream.out) = DoneEvent

\* What the pump made of the lines read so far: the chunks come from the
\* lines satisfying `emits`, one each, in upstream order, and the terminator
\* comes once, last, when the body is exhausted.
PumpOutputIs(emits(_)) ==
    LET out    == stream.out
        chunks == EventsOfType(out, "chunk")
    IN  /\ \A i \in 1..(stream.pos - 1) :
               emits(stream.input[i]) <=> \E k \in chunks : out[k].line = i
        /\ \A k1, k2 \in chunks : k1 < k2 => out[k1].line < out[k2].line
        /\ \A k \in 1..Len(out) : out[k].type \in {"chunk", "done"}
        /\ EventsOfType(out, "done") = {Len(out)}
        /\ stream.pos = Len(stream.input) + 1

HasCandidates(line) ==
    /\ line.prefix \in {"data: ", "data:"}
    /\ line.payload \in {"candidates", "badcandidate"}

WellFormedCandidates(line) ==
    /\ line.prefix \in {"data: ", "data:"}
    /\ line.payload = "candidates"

\* C12 as stated: for every finite sequence of upstream lines, the pump
\* emits one chunk per data line holding parseable JSON with a non-empty
\* candidates list, in upstream order, skips every other line, and then
\* emits "data: [DONE]" exactly once as the last event.
C12_ChunkPerCandidatesLine == PumpedToEnd => PumpOutputIs(HasCandidates)

\* C12 as amended: the same, with one chunk per data line holding parseable
\* JSON whose non-empty candidates list starts with a well-formed candidate
\* object; a line whose first candidate makes the conversion raise is
\* skipped like a line of invalid JSON.
C12_ChunkPerWellFormedLine == PumpedToEnd => PumpOutputIs(WellFormedCandidates)

C12_Witness ==
    /\ PumpedToEnd
    /\ Len(stream.input) = MaxLines
    /\ Len(stream.out) = 3
    /\ \E i \in 1..Len(stream.input) : stream.input[i].payload = "badjson"
    /\ stream.out[1].line < stream.out[2].line

\* C13: the outbound SSE of an image model with stream=true is one
\* ": heartbeat" per heartbeat interval that elapsed with the task pending,
\* all of them before anything else; on success then exactly one content
\* chunk, one finish chunk carrying usage iff the response has it, and
\* [DONE], with nothing after [DONE].
C13_ImageStreamShape ==
    LET out == image.out
    IN  /\ \A k \in 1..Len(out) : out[k].type = "heartbeat" <=> k <= image.beats
        /\ \A k \in 1..Len(out) : out[k] = DoneEvent => k = Len(out)
        /\ (image.task = "ok" /\ image.pc \in {"done", "closed"}
                /\ image.raised = "") =>
               /\ Len(out) = image.beats + 3
               /\ out[image.beats + 1].type = "content"
               /\ out[image.beats + 2].type = "finish"
               /\ out[image.beats + 2].detail = "usage" <=> image.usage
               /\ out[image.beats + 3].type = "done"

C13_Witness ==
    /\ image.pc = "closed"
    /\ image.raised = ""
    /\ image.task = "ok"
    /\ image.usage
    /\ image.beats = MaxBeats
    /\ Len(image.out) = MaxBeats + 3

\* C14: when the image-streaming wrapper finishes because its client went
\* away, its background task is not pending any more: no upstream call
\* outlives its client stream.
C14_TaskNeverOutlivesStream ==
    image.pc = "closed" => image.task # "pending"

\* ---------------------------------------------------------------- C15-C17
\* C15: after any sequence of set and get operations a cache holds at most
\* its cap of entries (MAX_REASONING_ENTRIES, MAX_TOOL_ENTRIES, MAX_ENTRIES).
C15_CacheSizeBound ==
    cache.which # "none" => Len(cache.entries) <= max_entries(cache.which)

\* More distinct keys were inserted than the cap allows.
C15_Witness ==
    /\ cache.which = "tool_name"
    /\ cache.ret.op = "set"
    /\ cache.ret.evicted # <<>>
    /\ Len(cache.entries) = MAX_ENTRIES

\* C16: a get never returns a value written more than ENTRY_TTL_SECONDS
\* earlier, and after a get that returned None (the key was missing or its
\* entry had expired) the cache has no entry for the key, whenever the last
\* sweep ran.
C16_GetHonoursTTL ==
    cache.ret.op = "get" =>
        /\ cache.ret.hit => now - cache.ret.ts <= ENTRY_TTL_SECONDS
        /\ ~cache.ret.hit => ~HasKey(cache.entries, cache.ret.key)

\* A get found an expired entry that no sweep had removed (none was due).
C16_Witness ==
    /\ cache.ret.op = "get"
    /\ ~cache.ret.hit
    /\ cache.ret.ts # 0
    /\ now - cache.ret.ts > ENTRY_TTL_SECONDS
    /\ cache.last_cleanup # now
    /\ ~HasKey(cache.entries, cache.ret.key)

\* C17: the entry an insertion evicts is the oldest one: no entry left in
\* the cache has a smaller timestamp than an evicted entry.
C17_EvictsOldest ==
    \A k \in 1..Len(cache.ret.evicted) :
        \A i \in 1..Len(cache.entries) :
            cache.ret.evicted[k].ts <= cache.entries[i].ts

\* -------------------------------------------------------------------- C18
\* C18: every project of the pool carries a runtime session_id generated at
\* load time, and no project written to the persistence file has a
\* session_id.
C18_SessionIdRuntimeOnly ==
    /\ \A i \in 1..Len(projects) : session_id(projects[i]) # 0
    /\ \A i \in 1..Len(file) : "session_id" \notin DOMAIN file[i]

\* ---------------------------------------------------------------- C19-C20
\* ^[A-Za-z0-9_-]{1,128}$, with the cap scaled as NameCap is.
MatchesSafeName(name) ==
    /\ Len(name) \in 1..NameCap
    /\ \A i \in 1..Len(name) : name[i] \in {"a", "_", "T", "U"}

Converted == conv.pc \in {"converted", "responded"}

\* The tools of the request that convert_tools declares.
Declarable ==
    { i \in 1..Len(conv.tools) :
        conv.tools[i].type = "function" /\ schema_ok(conv.tools[i]) }

\* C19 as stated: the body made from a request with a non-empty tools list
\* has toolConfig.functionCallingConfig.mode = "VALIDATED" and every declared
\* tool name matches ^[A-Za-z0-9_-]{1,128}$; the body made from a request
\* without tools has neither tools nor toolConfig.
C19_ToolsGiveValidated ==
    Converted =>
        /\ conv.tools # <<>> =>
               /\ conv.body.toolConfig = "VALIDATED"
               /\ \A k \in 1..Len(conv.body.tools) :
                      MatchesSafeName(conv.body.tools[k])
        /\ conv.tools = <<>> =>
               /\ conv.body.tools = <<>>
               /\ conv.body.toolConfig = ""

\* C19 as amended: when the model is no image model and at least one tool of
\* the request is declared (type "function", schema valid), the body declares
\* exactly those tools, has mode "VALIDATED" and every declared name matches
\* the pattern; otherwise the body has neither tools nor toolConfig.
C19_DeclaredToolsGiveValidated ==
    Converted =>
        IF Declarable # {} /\ ~is_image_model(conv.model)
        THEN /\ conv.body.toolConfig = "VALIDATED"
             /\ Len(conv.body.tools) = Cardinality(Declarable)
             /\ \A k \in 1..Len(conv.body.tools) :
                    MatchesSafeName(conv.body.tools[k])
        ELSE /\ conv.body.tools = <<>>
             /\ conv.body.toolConfig = ""

\* Two tools, one with unsafe characters and a name over the cap, one dropped.
C19_Witness ==
    /\ Converted
    /\ ~is_image_model(conv.model)
    /\ Len(conv.tools) = 2
    /\ Cardinality(Declarable) = 1
    /\ \E i \in Declarable :
           /\ Len(conv.tools[i].name) > NameCap
           /\ \E j \in 1..Len(conv.tools[i].name) : conv.tools[i].name[j] = "!"
    /\ conv.body.toolConfig = "VALIDATED"

\* C20: with a session, for every tool name n of the request that is
\* sanitized to s # n, the tool-name cache maps (session, model, s) to n once
\* the request is converted, and a functionCall named s in a response
\* converted afterwards is reported under the name n.
C20_SanitizedNameMapsBack ==
    (Converted /\ conv.session_id # 0) =>
        \A i \in 1..Len(conv.tools) :
            LET n == original_name(conv.tools[i])
                s == sanitize_tool_name(n)
                e == Lookup(cache.entries,
                            ToolNameKey(conv.session_id, conv.model, s))
            IN  (conv.tools[i].type = "function" /\ s # n) =>
                    /\ e # <<>>
                    /\ e[1].value = n
                    /\ (conv.pc = "responded" /\ conv.call = s) =>
                           conv.reported = n

\* ------------------------------------------------ the front of the handlers
\* The endpoints that take the key from three locations, and those that read
\* a JSON body.
GeminiKinds == {"gemini", "gemini_stream"}
BodyKinds   == Kinds \ {"models"}

\* What a client may send along: a key of the set, another key, or none.
SentAuthorization == {<<>>, <<"Bearer ", "k1">>, <<"Bearer ", "zz">>}
SentKeys          == {<<>>, <<"k1">>}

\* One endpoint of each kind of front.
FrontKinds == {"chat", "models", "gemini"}

\* Rejected that has called get_next_project before it looks at the request.
RejectedAfterPick(r, end) ==
    /\ req' = [req EXCEPT ![r] = [IdleReq EXCEPT !.pc = "done", !.end = end]]
    /\ LET g == get_next_project(projects, current_index, current_usage_count,
                                 rotation_count)
       IN  /\ current_index' = g.index
           /\ current_usage_count' = g.usage
    /\ UNCHANGED <<projects, rotation_count, refresh_lock, file, now, picks,
                   last_pick>>

\* raise HTTPException(401) or HTTPException(400) at the top of a handler:
\* the request ends there.
Rejected(r, end) ==
    /\ req' = [req EXCEPT ![r] = [IdleReq EXCEPT !.pc = "done", !.end = end]]
    /\ UNCHANGED <<projects, current_index, current_usage_count,
                   rotation_count, refresh_lock, file, now, picks, last_pick>>

\* A request reaches the handler of `kind`: the key is checked, the body is
\* parsed, and then the handler goes on as Start does.  auth keeps the
\* locations and the status of the last request turned away.
Arrive(r, kind, authorization, x_goog_api_key, key, json_ok) ==
    /\ req[r].pc = "idle"
    /\ LET seen == [auth EXCEPT
                      !.pc = "checked", !.endpoint = kind,
                      !.authorization = authorization,
                      !.x_goog_api_key = x_goog_api_key, !.key = key]
           valid == IF kind \in GeminiKinds
                    THEN validate_api_key(auth.api_keys, authorization,
                                          x_goog_api_key, TRUE, key, TRUE)
                    ELSE validate_api_key(auth.api_keys, authorization,
                                          <<>>, FALSE, <<>>, FALSE)
       IN  IF ~valid
           THEN /\ Rejected(r, "unauthorized")
                /\ auth' = [seen EXCEPT !.status = 401]
                /\ UNCHANGED <<stream, image, cache, conv, turn, dir>>
           ELSE IF kind \in BodyKinds /\ ~json_ok
           THEN /\ Rejected(r, "bad_json")
                /\ auth' = [seen EXCEPT !.status = 400]
                /\ UNCHANGED <<stream, image, cache, conv, turn, dir>>
           ELSE Start(r)

InitFront ==
    /\ projects \in Pools
    /\ current_index = 0
    /\ current_usage_count = 0
    /\ rotation_count \in 1..MaxRotation
    /\ refresh_lock = 0
    /\ file = save_tokens(projects)
    /\ now = 1000
    /\ req = [r \in Reqs |-> IdleReq]
    /\ picks = <<>>
    /\ last_pick = NoPick
    /\ stream = NoStream
    /\ image = NoImage
    /\ cache = NoCache
    /\ conv = NoConv
    /\ turn = NoTurn
    /\ dir = NoDir
    /\ auth = [NoAuth EXCEPT !.pc = "ready", !.api_keys = {"k1"}]

NextFront ==
    \E r \in Reqs :
        \/ \E kind \in FrontKinds, authorization \in SentAuthorization,
              key \in SentKeys, json_ok \in BOOLEAN :
               Arrive(r, kind, authorization, <<>>, key, json_ok)
        \/ AcquireLock(r)
        \/ \E status \in OAuthStatuses, e \in ExpiresInSet :
               OAuthResponse(r, status, e)
        \/ OAuthRaises(r)

SpecFront == InitFront /\ [][NextFront]_vars

\* ------------------------------------------------------ the image directory
MaxSaves    == 4     \* save_base64_image calls of a run
MaxDirTicks == 2     \* times the file system's time stamp moves on

\* max_images as the callers may hand it over.
MaxImagesValues == {0, 1, 2}

File(name, mtime) == [name |-> name, mtime |-> mtime]

\* image_dir.iterdir(): the entries in an order of the file system's
\* choosing.
iterdir(files) ==
    { order \in [1..Cardinality(files) -> files] :
        \A i, j \in 1..Cardinality(files) : i # j => order[i] # order[j] }

\* files.sort(key=mtime, reverse=True): a stable sort, entries of one mtime
\* stay in the order they were listed in.
RECURSIVE sort_by_mtime(_, _)
sort_by_mtime(listed, t) ==
    LET here == SelectSeq(listed, LAMBDA e : e.mtime = t)
    IN  IF t = 0 THEN here ELSE here \o sort_by_mtime(listed, t - 1)

\* _prune_old_files: nothing when max_images <= 0; else the entries after
\* the first max_images of the sorted listing are unlinked.
_prune_old_files(files, max_images, order) ==
    IF max_images <= 0 THEN files
    ELSE LET sorted == sort_by_mtime(order, MaxDirTicks)
         IN  { sorted[i] : i \in 1..Len(sorted) } \
                 { sorted[i] : i \in (max_images + 1)..Len(sorted) }

\* save_base64_image with a payload: the file is written under a new name
\* (time stamp and 16 random hex digits), stamped with the current time,
\* the directory is pruned, and the name is returned.
SaveImage ==
    /\ dir.pc # "none"
    /\ dir.saves < MaxSaves
    /\ LET filename == dir.saves + 1
           written  == dir.files \cup {File(filename, dir.mtime)}
       IN  \E order \in iterdir(written) :
               dir' = [dir EXCEPT
                 !.pc = "saved",
                 !.saves = filename,
                 !.listed = written,
                 !.files = _prune_old_files(written, dir.max_images, order),
                 !.returned = filename]
    /\ UNCHANGED <<tokenVars, stream, image, cache, conv, turn, auth>>

\* save_base64_image with an empty payload: ValueError, nothing is written.
SaveEmptyImage ==
    /\ dir.pc # "none"
    /\ dir.saves < MaxSaves
    /\ dir' = [dir EXCEPT !.pc = "raised", !.saves = dir.saves + 1,
                          !.listed = dir.files, !.returned = 0]
    /\ UNCHANGED <<tokenVars, stream, image, cache, conv, turn, auth>>

\* The time the file system stamps files with moves on.
DirTick ==
    /\ dir.pc # "none"
    /\ dir.mtime < MaxDirTicks
    /\ dir' = [dir EXCEPT !.mtime = dir.mtime + 1]
    /\ UNCHANGED <<tokenVars, stream, image, cache, conv, turn, auth>>

InitImages ==
    /\ projects = <<>>
    /\ current_index = 0
    /\ current_usage_count = 0
    /\ rotation_count = 1
    /\ refresh_lock = 0
    /\ file = <<>>
    /\ now = 1000
    /\ req = [r \in Reqs |-> IdleReq]
    /\ picks = <<>>
    /\ last_pick = NoPick
    /\ stream = NoStream
    /\ image = NoImage
    /\ cache = NoCache
    /\ conv = NoConv
    /\ turn = NoTurn
    /\ auth = NoAuth
    /\ \E max_images \in MaxImagesValues :
          dir = [NoDir EXCEPT !.pc = "empty", !.max_images = max_images]

NextImages ==
    \/ SaveImage
    \/ SaveEmptyImage
    \/ DirTick

SpecImages == InitImages /\ [][NextImages]_vars


\* -------------------------------------------------------------------- C21
\* The parts of all entries, in order.
RECURSIVE AllParts(_)
AllParts(contents) ==
    IF contents = <<>> THEN <<>>
    ELSE contents[1].parts \o AllParts(Tail(contents))

FunctionCalls(contents) ==
    SelectSeq(AllParts(contents), LAMBDA p : p.functionCall # <<>>)

FunctionResponses(contents) ==
    SelectSeq(AllParts(contents), LAMBDA p : p.functionResponse # <<>>)

ToolMessages(messages) == SelectSeq(messages, LAMBDA m : m.role = "tool")

\* The tool message m answers a tool call of the request.
AnswersCall(m, contents) ==
    /\ m.tool_call_id # 0
    /\ \E i \in 1..Len(FunctionCalls(contents)) :
          FunctionCalls(contents)[i].functionCall[1].id = m.tool_call_id

\* C21: every tool message whose tool_call_id is the id of an earlier
\* assistant tool call gives a functionResponse with that id and with the
\* name of a functionCall part emitted under that id.
C21_ToolResponseLinked ==
    turn.pc = "converted" =>
        LET ms == ToolMessages(turn.messages)
            rs == FunctionResponses(turn.contents)
            cs == FunctionCalls(turn.contents)
        IN  /\ Len(rs) = Len(ms)
            /\ \A k \in 1..Len(ms) :
                  AnswersCall(ms[k], turn.contents) =>
                      LET r == rs[k].functionResponse[1] IN
                      /\ r.id = ms[k].tool_call_id
                      /\ \E i \in 1..Len(cs) :
                            /\ cs[i].functionCall[1].id = r.id
                            /\ cs[i].functionCall[1].name = r.name

\* The same for the calls whose emitted name sanitize_tool_name leaves as it
\* is: the cases in which the linkage does hold.
C21_LinkedWhenNameIsStable ==
    turn.pc = "converted" =>
        LET ms == ToolMessages(turn.messages)
            rs == FunctionResponses(turn.contents)
            cs == FunctionCalls(turn.contents)
        IN  /\ Len(rs) = Len(ms)
            /\ \A k \in 1..Len(ms) :
                  AnswersCall(ms[k], turn.contents) =>
                      LET r == rs[k].functionResponse[1] IN
                      /\ r.id = ms[k].tool_call_id
                      /\ \E i \in 1..Len(cs) :
                            LET c == cs[i].functionCall[1] IN
                            /\ c.id = r.id
                            /\ r.name = sanitize_tool_name(c.name)

\* -------------------------------------------------------------------- C22
\* A tool_call entry by the keys the two converters share.
SharedKeys(entry) ==
    [id |-> entry.id, name |-> entry.name, arguments |-> entry.arguments,
     thoughtSignature |-> entry.thoughtSignature]

SharedToolCalls(answer) ==
    [i \in 1..Len(answer.tool_calls) |-> SharedKeys(answer.tool_calls[i])]

BothConverted == turn.message # <<>> /\ turn.delta # <<>>

\* C22: for any list of parts of one candidate the stream delta and the
\* non-stream message agree on content, reasoning_content, tool_calls (id,
\* name, arguments, thoughtSignature), the exposed thoughtSignature and the
\* signatures the caches hold afterwards.
C22_StreamAgreesWithNonStream ==
    BothConverted =>
        /\ turn.delta[1].content = turn.message[1].content
        /\ turn.delta[1].reasoning_content = turn.message[1].reasoning_content
        /\ SharedToolCalls(turn.delta[1]) = SharedToolCalls(turn.message[1])
        /\ turn.delta[1].thoughtSignature = turn.message[1].thoughtSignature
        /\ turn.delta_caches.reasoning.entries
              = turn.message_caches.reasoning.entries
        /\ turn.delta_caches.tool.entries = turn.message_caches.tool.entries

\* Every part is of one shape of the spec's table, one whose text both
\* converters keep: a thought, a text that is not empty, a functionCall or a
\* thoughtSignature alone.
PlainPart(part) ==
    \/ part.thought /\ part.functionCall = <<>> /\ ~part.inlineData
    \/ /\ ~part.thought /\ ~part.inlineData
       /\ Cardinality({k \in {"text", "functionCall", "thoughtSignature"} :
                         part[k] # <<>>}) = 1
       /\ part.text # <<"">>

\* The two converters do agree on the candidates made of such parts.
C22_AgreeOnPlainParts ==
    (BothConverted /\ \A i \in 1..Len(turn.parts) : PlainPart(turn.parts[i]))
        => C22_StreamAgreesWithNonStream

\* -------------------------------------------------------------------- C23
\* The request holds one assistant message with one tool call, and thinking
\* is enabled for its model.
SignedTurn(t) ==
    /\ t.messages \in SignedMessages
    /\ is_enable_thinking(t.model)

\* The signature of the model entry's signature part, and of its functionCall
\* part.
AttachedReasoning(t) == t.contents[1].parts[2].thoughtSignature
AttachedTool(t)      == FunctionCalls(t.contents)[1].thoughtSignature

\* The last signature an answer of the session carried, when it is not older
\* than the TTL at time at: <<>> when there is none.
FreshCapture(notes, sid, at) ==
    IF sid \in Sessions /\ notes[sid] # <<>>
       /\ at - notes[sid][1].ts <= ENTRY_TTL_SECONDS
    THEN notes[sid][1].sig ELSE <<>>

\* The same, when moreover the cache still holds an entry of the session.
HeldCapture(notes, c, sid, model, at) ==
    IF HasKey(c.entries, _make_key(sid, model))
    THEN FreshCapture(notes, sid, at) ELSE <<>>

ReasoningFamily(model) ==
    CASE model[1] \in {"gemini", "Gemini"} -> "GEMINI_THOUGHT_SIGNATURE"
      [] OTHER               -> "CLAUDE_THOUGHT_SIGNATURE"

ToolFamily(model) ==
    CASE model[1] = "claude" -> "CLAUDE_THOUGHT_SIGNATURE"
      [] OTHER               -> "TOOL_THOUGHT_SIGNATURE"

\* own, else captured, else the constant
InOrder(own, captured, constant) ==
    IF Truthy(own) THEN own
    ELSE IF captured # <<>> THEN captured ELSE <<constant>>

\* C23: with thinking enabled the signature attached to an assistant turn is
\* the message's own, else the one most recently captured for the session
\* and model by a response conversion and not older than the TTL, else the
\* constant of the model's family; the same for the tool call.
C23_SignatureOrder ==
    [][(turn.pc = "request" /\ turn'.pc = "converted" /\ SignedTurn(turn'))
        => /\ AttachedReasoning(turn') =
                InOrder(turn'.messages[1].thoughtSignature,
                        FreshCapture(turn.captured.reasoning,
                                     turn.session_id, now),
                        ReasoningFamily(turn.model))
           /\ AttachedTool(turn') =
                InOrder(turn'.messages[1].tool_calls[1].thoughtSignature,
                        FreshCapture(turn.captured.tool, turn.session_id, now),
                        ToolFamily(turn.model))]_vars

\* C23 as the code has it: the captured signature counts while the cache
\* still holds it, that is while it is neither older than the TTL nor pushed
\* out by the size cap.
C23_SignatureOrderWhileHeld ==
    [][(turn.pc = "request" /\ turn'.pc = "converted" /\ SignedTurn(turn'))
        => /\ AttachedReasoning(turn') =
                InOrder(turn'.messages[1].thoughtSignature,
                        HeldCapture(turn.captured.reasoning,
                                    turn.caches.reasoning,
                                    turn.session_id, turn.model, now),
                        ReasoningFamily(turn.model))
           /\ AttachedTool(turn') =
                InOrder(turn'.messages[1].tool_calls[1].thoughtSignature,
                        HeldCapture(turn.captured.tool, turn.caches.tool,
                                    turn.session_id, turn.model, now),
                        ToolFamily(turn.model))]_vars

\* A request without signatures of its own was converted after answers of
\* its session were: both attached signatures are captured ones.
C23_Witness ==
    /\ turn.pc = "converted"
    /\ SignedTurn(turn)
    /\ turn.messages[1].thoughtSignature = <<>>
    /\ turn.messages[1].tool_calls[1].thoughtSignature = <<>>
    /\ AttachedReasoning(turn) \in {<<"s1">>, <<"s2">>}
    /\ AttachedTool(turn) \in {<<"t1">>, <<"t2">>}
    /\ turn.ticks > 0

\* -------------------------------------------------------------------- C24
\* The assistant message of the request has made the round trip.
RoundTripDone ==
    /\ turn.messages \in RoundTripMessages
    /\ turn.message # <<>>

\* A string content as the message holds it.
AsContent(opt) == IF opt = <<>> \/ opt = <<"">> THEN <<>> ELSE <<<<opt[1]>>>>

\* The tool calls of the answer are those of the message: the original
\* names, and the arguments after a JSON round trip.
SameToolCalls(sent, got) ==
    /\ Len(got) = Len(sent)
    /\ \A i \in 1..Len(sent) :
          /\ got[i].name = sent[i].name
          /\ got[i].arguments = "json"

\* C24: the assistant message converted to parts by the request converter
\* and back by the response converter has the same text content, the same
\* tool calls and, when thinking is enabled, the same reasoning_content.
C24_RoundTrip ==
    RoundTripDone =>
        LET sent == turn.messages[1]
            got  == turn.message[1]
        IN  /\ got.content = AsContent(sent.content)
            /\ SameToolCalls(sent.tool_calls, got.tool_calls)
            /\ is_enable_thinking(turn.model)
                  => got.reasoning_content = AsContent(sent.reasoning_content)

\* The round trip does hold without thinking, for the tool names that are
\* safe as they are or are remembered for the session.
C24_RoundTripWithoutThinking ==
    (/\ RoundTripDone
     /\ ~is_enable_thinking(turn.model)
     /\ \A i \in 1..Len(turn.messages[1].tool_calls) :
           LET n == turn.messages[1].tool_calls[i].name IN
           turn.session_id # 0 \/ sanitize_tool_name(n) = n)
        => C24_RoundTrip

\* -------------------------------------------------------------------- C25
\* The model name ends with "-image", in whatever case.
EndsWithImage(model) ==
    model # <<>> /\ model[Len(model)] \in {"-image", "-IMAGE"}

\* C25: for every request whose model name ends case-insensitively with
\* "-image", whatever its stream flag, tools and system messages, the body
\* has requestType "image_gen", generationConfig {candidateCount: 1}, no
\* systemInstruction, tools or toolConfig, and the URL suffix is the
\* non-stream endpoint.
C25_ImageRequest ==
    (Converted /\ EndsWithImage(conv.model)) =>
        /\ conv.body.requestType = "image_gen"
        /\ conv.body.generationConfig = {<<"candidateCount", "1">>}
        /\ conv.body.systemInstruction = <<>>
        /\ conv.body.tools = <<>>
        /\ conv.body.toolConfig = ""
        /\ conv.url_suffix = "/v1internal:generateContent"

\* A stream request with an upper-case image model, a tool that would be
\* declared, a system message and options was converted.
C25_Witness ==
    /\ Converted
    /\ conv.model = <<"Gemini", "-3-pro", "-IMAGE">>
    /\ conv.stream
    /\ conv.system # <<>>
    /\ conv.options = RequestOptions
    /\ Declarable # {}
    /\ conv.body.requestType = "image_gen"

\* -------------------------------------------------------------------- C26
\* p needs refresh at time t: its accessToken is empty or its expiresAt is
\* earlier than t + 300 s.
NeedsRefresh(p, t) == p.access_token = 0 \/ p.expires_at < t + 300

\* Request r calls get_access_token in this step (it has got a project).
CallsGet(r) ==
    /\ req[r].pc = "idle"
    /\ req'[r].pc # "idle"
    /\ req'[r].project # 0

\* get_access_token of r returns in this step, after it took the refresh
\* path.
ReturnsFromRefresh(r) ==
    /\ req[r].pc \in {"wait_lock", "oauth"}
    /\ req[r].phase = "get"
    /\ req'[r].pc = "upstream"

\* At the call: the stored token is returned at once, with no OAuth POST,
\* iff the project does not need refresh.
CachedIffFresh(r) ==
    CallsGet(r) =>
        LET p == projects[req'[r].project] IN
        (~NeedsRefresh(p, now))
            <=> /\ req'[r].pc = "upstream"
                /\ req'[r].getTok = p.access_token
                /\ req'[r].getPosts = 0

\* The token r's own OAuth POST obtained is returned.
ReturnsOwnRefresh(r) ==
    /\ req[r].pc = "oauth"
    /\ req'[r].getPosts = 1
    /\ req'[r].getTok = MintedToken(r, "get")
    /\ projects'[req[r].project].access_token = req'[r].getTok

\* r waited for the refresh lock, and with the lock finds that the project
\* does not need refresh any more: the stored token is returned.
ReturnsAfterWait(r) ==
    /\ req[r].pc = "wait_lock"
    /\ ~NeedsRefresh(projects[req[r].project], now)
    /\ req'[r].getPosts = 0
    /\ req'[r].getTok = projects[req[r].project].access_token

\* C26: get_access_token returns the cached token without contacting the
\* OAuth endpoint iff p does not need refresh; otherwise what it returns is
\* the token obtained by a refresh.
C26_CachedIffFresh ==
    [][\A r \in Reqs :
          /\ CachedIffFresh(r)
          /\ ReturnsFromRefresh(r) => ReturnsOwnRefresh(r)]_vars

\* C26 with the callers that waited for the lock: they return the stored
\* token without a POST when a refresh made meanwhile left the project
\* fresh.
C26_CachedIffFreshOrRefreshedMeanwhile ==
    [][\A r \in Reqs :
          /\ CachedIffFresh(r)
          /\ ReturnsFromRefresh(r) =>
                (ReturnsOwnRefresh(r) \/ ReturnsAfterWait(r))]_vars

\* One caller found a fresh token, or refreshed, and another came back from
\* the wait for the lock with the token the first one's refresh stored.
C26_Witness ==
    \E r, q \in Reqs :
        /\ r # q
        /\ req[r].sawExpired /\ req[r].getPosts = 1
        /\ req[r].getTok = MintedToken(r, "get")
        /\ req[q].sawExpired /\ req[q].getPosts = 0
        /\ req[q].getTok = req[r].getTok

\* -------------------------------------------------------------------- C27
\* The file's record of every project carries the project's in-memory
\* accessToken, expiresAt, enabled and disabledReason.
Persisted(f, projs) ==
    /\ Len(f) = Len(projs)
    /\ \A i \in 1..Len(projs) :
          /\ f[i].access_token = projs[i].access_token
          /\ f[i].expires_at = projs[i].expires_at
          /\ f[i].enabled = projs[i].enabled
          /\ f[i].disabled_reason = projs[i].disabled_reason

NonStreamKinds == {"chat", "models", "gemini"}

\* C28: on every non-stream path (chat completions, models list,
\* generateContent passthrough) an upstream attempt that times out in the
\* HTTP client gives the client HTTP 504.
C28_TimeoutGives504 ==
    \A r \in Reqs, kind \in NonStreamKinds :
        req[r].end = "timeout" =>
            /\ ClientResult(kind, req[r]).kind = "http_error"
            /\ ClientResult(kind, req[r]).status = 504

\* The same, of the two paths whose handler catches the timeout.
C28_TimeoutGives504WhereCaught ==
    \A r \in Reqs, kind \in {"chat", "models"} :
        req[r].end = "timeout" =>
            /\ ClientResult(kind, req[r]).kind = "http_error"
            /\ ClientResult(kind, req[r]).status = 504

\* -------------------------------------------------------------------- C29
\* The Authorization header is "Bearer <key>" with key in ApiKeySet.
BearerOfSet(a) ==
    /\ a.authorization # <<>>
    /\ a.authorization[1] = "Bearer "
    /\ Len(a.authorization) = 2
    /\ a.authorization[2] \in a.api_keys

\* A key of the set is supplied in one of the three locations.
SuppliedSomewhere(a) ==
    \/ BearerOfSet(a)
    \/ a.x_goog_api_key # <<>> /\ a.x_goog_api_key[1] \in a.api_keys
    \/ a.key # <<>> /\ a.key[1] \in a.api_keys

\* C29: an OpenAI-format request is accepted iff Authorization is
\* "Bearer <key>" with key in ApiKeySet; a Gemini passthrough request is
\* accepted iff a key of the set is supplied in any of Authorization:
\* Bearer, X-Goog-Api-Key or ?key=, whatever the other locations carry;
\* every other request gets 401.
C29_KeyChecked ==
    auth.pc = "checked" =>
        /\ auth.status \in {0, 401}
        /\ auth.endpoint = "openai" => (auth.status = 0 <=> BearerOfSet(auth))
        /\ auth.endpoint = "gemini" =>
              (auth.status = 0 <=> SuppliedSomewhere(auth))

\* The OpenAI-format half of C29.
C29_OpenAIKeyChecked ==
    (auth.pc = "checked" /\ auth.endpoint = "openai") =>
        /\ auth.status \in {0, 401}
        /\ auth.status = 0 <=> BearerOfSet(auth)

\* On the passthrough the first non-empty location decides, ?key= before
\* X-Goog-Api-Key before Authorization.
C29_FirstLocationDecides ==
    (auth.pc = "checked" /\ auth.endpoint = "gemini") =>
        /\ auth.status \in {0, 401}
        /\ auth.status = 0 <=>
              IF Truthy(auth.key) THEN auth.key[1] \in auth.api_keys
              ELSE IF Truthy(auth.x_goog_api_key)
                   THEN auth.x_goog_api_key[1] \in auth.api_keys
                   ELSE BearerOfSet(auth)

\* -------------------------------------------------------------------- C30
\* save_base64_image has just returned a file name, max_images >= 1.
SavedWithCap == dir.pc = "saved" /\ dir.max_images >= 1

\* The files left are the newest by mtime of those listed.
NewestKept ==
    \A kept \in dir.files, gone \in dir.listed \ dir.files :
        kept.mtime >= gone.mtime

\* C30: after save_base64_image returns with max_images >= 1, the directory
\* holds at most max_images files, the newest by mtime, and the file just
\* returned is among them.
C30_NewestKeptWithReturned ==
    SavedWithCap =>
        /\ Cardinality(dir.files) <= dir.max_images
        /\ NewestKept
        /\ \E f \in dir.files : f.name = dir.returned

\* C30 without the returned file: at most max_images files, the newest.
C30_NewestKept ==
    SavedWithCap =>
        /\ Cardinality(dir.files) <= dir.max_images
        /\ NewestKept

\* The returned file is kept when no older file carries its time stamp.
C30_ReturnedKeptWhenStrictlyNewest ==
    (/\ SavedWithCap
     /\ \A f, g \in dir.listed :
           (g.name = dir.returned /\ f.name # dir.returned)
               => f.mtime < g.mtime) =>
        \E f \in dir.files : f.name = dir.returned

\* -------------------------------------------------------------------- C31
\* The tool_call_ids of the tool messages, in message order.
ToolIds(messages) ==
    LET ts == SelectSeq(messages, LAMBDA m : m.role = "tool")
    IN  [i \in 1..Len(ts) |-> ts[i].tool_call_id]

\* The ids of the functionResponse parts of the entries from i on, in order.
RECURSIVE ResponseIds(_, _)
ResponseIds(contents, i) ==
    IF i > Len(contents) THEN <<>>
    ELSE LET rs == SelectSeq(contents[i].parts,
                             LAMBDA p : p.functionResponse # <<>>)
         IN  [k \in 1..Len(rs) |-> rs[k].functionResponse[1].id]
                 \o ResponseIds(contents, i + 1)

\* A user entry made of functionResponse parts only.
ResponseEntry(e) ==
    /\ e.role = "user"
    /\ \A k \in 1..Len(e.parts) : e.parts[k].functionResponse # <<>>

\* The runs of consecutive tool messages.
ToolRuns(messages) ==
    { i \in 1..Len(messages) :
        /\ messages[i].role = "tool"
        /\ i = 1 \/ messages[i - 1].role # "tool" }

\* C31: a tool message's functionResponse joins the preceding entry iff
\* that is a user entry ending in a functionResponse, and opens a user entry
\* of its own otherwise: each run of consecutive tool messages gives one user
\* entry, holding their functionResponses in message order.
C31_ToolRunsGiveOneEntry ==
    turn.pc = "converted" =>
        LET ms == turn.messages
            cs == turn.contents
            others == SelectSeq(ms, LAMBDA m : m.role # "tool")
        IN  /\ ResponseIds(cs, 1) = ToolIds(ms)
            /\ \A i \in 1..Len(cs) :
                  (\E k \in 1..Len(cs[i].parts) :
                       cs[i].parts[k].functionResponse # <<>>)
                      => ResponseEntry(cs[i])
            /\ \A i \in 1..(Len(cs) - 1) :
                  ~(ResponseEntry(cs[i]) /\ ResponseEntry(cs[i + 1]))
            /\ Len(cs) = Len(others) + Cardinality(ToolRuns(ms))

\* Two tool messages in a row were converted into one entry, and a later
\* tool message, after a user turn, into another.
C31_Witness ==
    /\ turn.pc = "converted"
    /\ Len(turn.messages) = 4
    /\ turn.messages[1].role = "tool" /\ turn.messages[2].role = "tool"
    /\ turn.messages[3].role = "user" /\ turn.messages[4].role = "tool"
    /\ Len(turn.contents) = 3
    /\ Len(turn.contents[1].parts) = 2

\* -------------------------------------------------------------------- C32
\* The schema, as convert_tools takes it, is not a dict or names a type
\* outside the supported ones (in any case of letters); a missing type is
\* none.
OwnFault(schema) ==
    \/ ~schema.dict
    \/ schema.type \notin {"", "object", "string", "String"}

\* The parameters of the tool fail validation: the schema or one of its
\* properties is at fault (parameters that are no dict are taken as {}).
FailsValidation(tool) ==
    /\ tool.parameters.dict
    /\ \/ OwnFault(tool.parameters)
       \/ \E k \in DOMAIN tool.parameters.properties :
              OwnFault(tool.parameters.properties[k])

\* C32: a tool whose parameter schema fails validation is dropped, the
\* conversion succeeds all the same, and every other tool is declared, in
\* the order of the request.
C32_InvalidToolDropped ==
    conv.pc = "request" \/
        LET kept == SelectSeq(conv.tools, LAMBDA tool :
                        tool.type = "function" /\ ~FailsValidation(tool))
        IN  /\ conv.pc = "converted"
            /\ conv.body.tools =
                   [k \in 1..Len(kept) |->
                       sanitize_tool_name(original_name(kept[k]))]

\* Two tools, the first with a property of an unsupported type, were
\* converted: the second alone is declared.
C32_Witness ==
    /\ conv.pc = "converted"
    /\ Len(conv.tools) = 2
    /\ FailsValidation(conv.tools[1])
    /\ ~OwnFault(conv.tools[1].parameters)
    /\ ~FailsValidation(conv.tools[2])
    /\ Len(conv.body.tools) = 1

\* -------------------------------------------------------------------- C33
\* A get_next_project call returns a project in this step.
PickReturns == PoolPick /\ last_pick'.ok

\* C33: for every get_next_project call that moves current_index to another
\* project, whatever the reason, current_usage_count is 1 when it returns.
C33_CounterResetOnMove ==
    [][(PickReturns /\ current_index' # current_index)
           => current_usage_count' = 1]_vars

\* The counter is 1 after the moves the rotation block makes.
C33_CounterResetOnRotation ==
    [][(/\ PickReturns
        /\ current_index' # current_index
        /\ current_usage_count >= rotation_count)
           => current_usage_count' = 1]_vars

\* -------------------------------------------------------------------- C34
\* C34: with a non-empty pool 0 <= current_index < len(projects), and after
\* a get_next_project call that returned a project the cursor is on that
\* project.
C34_CursorOnReturned ==
    /\ Len(projects) > 0 =>
          (0 <= current_index /\ current_index < Len(projects))
    /\ (last_pick.ok /\ last_pick.project # 0) =>
          current_index + 1 = last_pick.project

\* The cursor has skipped a disabled project and stands on the second
\* project, which the call returned.
C34_Witness ==
    /\ last_pick.ok
    /\ last_pick.project = 2
    /\ current_index = 1
    /\ ~projects[1].enabled

\* -------------------------------------------------------------------- C37
\* Some project other than p is enabled.
OtherEnabled(p) ==
    \E q \in 1..Len(projects) : q # p /\ projects[q].enabled

\* C37: after every pick that returned a project
\* 1 <= current_usage_count <= rotation_count, and no project is returned
\* more than rotation_count times in a row while another project is enabled.
C37_RotationQuota ==
    picks # <<>> =>
        /\ 1 <= current_usage_count
        /\ current_usage_count <= rotation_count
        /\ \A i \in 1..(Len(picks) - rotation_count) :
              (\A k \in 0..rotation_count : picks[i + k] = picks[i])
                  => ~OtherEnabled(picks[i])

\* A project was returned rotation_count times in a row, twice, the other
\* project in between, with a quota of two.
C37_Witness ==
    /\ rotation_count = 2
    /\ Len(picks) >= 6
    /\ picks[1] = picks[2] /\ picks[3] = picks[4] /\ picks[5] = picks[6]
    /\ picks[1] # picks[3] /\ picks[1] = picks[5]
    /\ current_usage_count = 2

\* -------------------------------------------------------------------- C35
\* The OAuth POST of request r ends in this step.
PostEnds(r) == req[r].pc = "oauth" /\ req'[r].pc # "oauth"

\* The refresh of r went through: its token is stored and returned.
RefreshSucceeds(r) ==
    /\ req'[r].pc = "upstream"
    /\ projects'[req[r].project].access_token
           = MintedToken(r, req[r].phase)

\* The refresh of r failed: the call raises, the project and the file are
\* as they were, and the lock is free.
RefreshFailsCleanly(r) ==
    /\ req'[r].pc = "done"
    /\ req'[r].end \in {"get_failed", "auth_failed"}
    /\ projects' = projects
    /\ file' = file
    /\ refresh_lock' = 0

\* C35: a refresh whose OAuth answer is not 200, or whose POST raises, fails
\* with an error, leaves the project's accessToken, expiresAt, enabled and
\* disabledReason and the file unchanged, and releases the refresh lock.
C35_FailedRefreshChangesNothing ==
    [][\A r \in Reqs :
          PostEnds(r) => (RefreshSucceeds(r) \/ RefreshFailsCleanly(r))]_vars

\* One request's refresh failed, and another request refreshed the same
\* project with a POST of its own.
C35_Witness ==
    \E r, q \in Reqs :
        /\ r # q
        /\ req[r].end = "get_failed"
        /\ req[q].project = req[r].project
        /\ req[q].getPosts = 1
        /\ req[q].getTok = MintedToken(q, "get")
        /\ projects[req[q].project].access_token = req[q].getTok
        /\ refresh_lock = 0

\* -------------------------------------------------------------------- C36
\* The requests whose OAuth POST is in flight.
Posting == { r \in Reqs : req[r].pc = "oauth" }

\* C36: at most one OAuth POST is in flight at any time, whatever projects
\* the get_access_token and handle_auth_error calls are on, and the caller
\* that posts holds the lock and found the token expired once it had it.
C36_OneRefreshAtATime ==
    [][/\ Cardinality(Posting') <= 1
       /\ \A r \in Reqs :
             (req[r].pc # "oauth" /\ req'[r].pc = "oauth") =>
                 /\ refresh_lock' = r
                 /\ NeedsRefresh(projects[req'[r].project], now)]_vars

\* One request is posting for a project while a request for the other
\* project waits for the lock, and a handle_auth_error call has posted.
C36_Witness ==
    \E r, q \in Reqs :
        /\ req[r].pc = "oauth"
        /\ req[q].pc = "wait_lock"
        /\ req[q].project # req[r].project
        /\ req[r].phase = "auth"

\* -------------------------------------------------------------------- C38
\* Request r is turned away in this step, for its key or for its body.
TurnedAway(r) ==
    /\ req[r].pc = "idle"
    /\ req'[r].end \in {"unauthorized", "bad_json"}

\* C38: a request rejected for a missing or invalid API key, or for a body
\* that is no JSON, changes nothing in the pool: get_next_project is not
\* called (cursor and counter unchanged), no OAuth refresh and no upstream
\* request is issued, and the client gets 401 or 400.
C38_RejectedChangesNothing ==
    [][\A r \in Reqs : TurnedAway(r) =>
          /\ current_index' = current_index
          /\ current_usage_count' = current_usage_count
          /\ projects' = projects
          /\ file' = file
          /\ refresh_lock' = refresh_lock
          /\ req'[r].pc = "done"
          /\ req'[r].project = 0
          /\ req'[r].getPosts = 0 /\ req'[r].authPosts = 0
          /\ req'[r].sent = <<>>
          /\ ClientResult(auth'.endpoint, req'[r]).status = auth'.status
          /\ auth'.status \in {400, 401}]_vars

\* One request was let in and has picked a project and sent its upstream
\* POST; the other, on the passthrough, was turned away for its body, with
\* a good key, the cursor and the counter being where the first left them.
C38_Witness ==
    \E r, q \in Reqs :
        /\ req[r].pc = "upstream" /\ req[r].sent # <<>>
        /\ req[q].end = "bad_json"
        /\ auth.endpoint = "gemini"
        /\ auth.key = <<"k1">>
        /\ current_usage_count = 1
        /\ req[q].sent = <<>>

\* -------------------------------------------------------------------- C39
\* The retry of r after a 401/403 was answered, and not with 200.
RetryRefused(r) ==
    /\ req[r].end = "answered"
    /\ Len(req[r].sent) = 2
    /\ LastStatus(req[r]) # 200

\* C39: in the streamGenerateContent passthrough a retry answered with a
\* status other than 200 is reported to the client as an error event, and
\* the lines of that response are not pumped as stream data.
C39_RetryStatusReported ==
    \A r \in Reqs :
        RetryRefused(r) =>
            ClientResult("gemini_stream", req[r]).kind = "sse_error"

\* The same of the converted chat stream.
C39_ChatRetryStatusReported ==
    \A r \in Reqs :
        RetryRefused(r) =>
            ClientResult("chat_stream", req[r]).kind = "sse_error"

\* -------------------------------------------------------------------- C40
\* Positions of the chunks of `out` that carry a usage object.
UsageChunks(out) ==
    { k \in 1..Len(out) : out[k].type = "chunk" /\ out[k].detail = "usage" }

\* Both a finishReason and a non-empty usageMetadata were taken from the
\* upstream lines up to position i.
BothSeen(input, i) ==
    /\ \E j \in 1..i : ~SkipsLine(input[j]) /\ HasFinishReason(input[j])
    /\ \E j \in 1..i : ~SkipsLine(input[j]) /\ HasUsageMetadata(input[j])

\* C40: in a converted stream at most one emitted chunk carries a usage
\* object, and it is the last chunk before [DONE].
C40_UsageOnLastChunkOnly ==
    stream.pc = "closed" /\ stream.status = 200 =>
        LET out == stream.out
        IN  /\ Cardinality(UsageChunks(out)) <= 1
            /\ \A k \in UsageChunks(out) : out[k + 1].type = "done"

\* A chunk carries usage only when a finishReason and a usageMetadata were
\* seen in the upstream up to its line.
C40_UsageOnlyOnceBothSeen ==
    \A k \in UsageChunks(stream.out) :
        BothSeen(stream.input, stream.out[k].line)

====
